---------------------------- MODULE Spec2Model ----------------------------
(***************************************************************************)
(* State-machine model of the "mission master" tracker of src/index.tsx:   *)
(* the App component's state (useState hooks), its event handlers and the  *)
(* render-time guards (disabled buttons, conditionally mounted views) that *)
(* decide which handler a user event can reach.                            *)
(*                                                                         *)
(* Every handler runs to completion in one step: React flushes the state   *)
(* updates of a discrete event before the next event is delivered, and the *)
(* persistence effects (lines 471-478) then write the new state, so the    *)
(* stored copy of missions, stickers, bonus balance, archives, presets,    *)
(* reward configuration and logs equals the in-memory one between events.  *)
(* The load effect (lines 432-469) reads that copy back through its        *)
(* encoding.                                                               *)
(***************************************************************************)
EXTENDS Integers, Sequences, FiniteSets, TLC

(***************************************************************************)
(* Bounds of the model (not program constants).                            *)
(***************************************************************************)
\* Calendar days per month; the code asks the Date object (28..31).
DaysPerMonth == 2
\* The clock counts half days and stops here (mission lifecycle).
MaxClock == 2
\* The clock's last half day on the sticker board, past a month's end.
BoardClock == 3
\* Bonus stickers found in storage at first launch range over 0..MaxBonus.
MaxBonus == 2
\* Missions and log entries on the sticker board.
BoardMissions == 1
BoardLogs == 1
\* Longest reward step list the parent builds when rewards are evaluated.
RewardSteps == 3
\* Longest mission list the parent builds.
MaxMissions == 2
\* Longest completion log.
MaxLogs == 2
\* Longest archive list.
MaxArchives == 1
\* Most presets saved.
MaxPresets == 1
\* Rollovers in the history of an archive list.
ArchiveRolls == 2
\* Longest digit buffer typed on the PIN pad.
MaxPinBuffer == 5
\* Most buffer clears scheduled at a time.
PinTimers == 2
\* The mission log: missions in the list, half-days, completions logged.
LogMissions == 1
LogClock == 2
LogEntries == 2
\* Presets: missions in the list, presets saved, completions logged.
PresetMissions == 2
PresetCount == 2
PresetLogs == 1
\* The store: half-days, missions, completions, archives, presets, steps.
StoreClock == 2
StoreMissions == 1
StoreLogs == 1
StoreArchives == 1
StorePresets == 1
StoreSteps == 1
\* The add form: missions in the list, completions logged.
FormMissions == 2
FormLogs == 2
\* The countdown: missions in the list.
TimerMissions == 2
\* The external calls: half-days, missions, completions, calls in flight.
VoiceClock == 2
VoiceMissions == 1
VoiceLogs == 2
MaxCalls == 2

(***************************************************************************)
(* Program constants.                                                      *)
(***************************************************************************)
\* DEFAULT_PIN, line 113.
DEFAULT_PIN == <<1, 2, 3, 4>>
\* The reward step cap of the add-step button, line 846.
MaxRewardSteps == 5
\* Length at which a PIN buffer is judged, lines 630-641.
PinLength == 4

\* Inputs the user can give.
Titles == {"Read", "Math"}
Durations == {1}
\* What the number field of the add form lets through: it is required, and
\* has no minimum (line 816).
FormDurations == {0 - 1, 0, 1}
Rewards == {"Candy"}
\* stickerOptions, lines 318-323.
StickerOptions == {"star", "heart", "rocket", "crown"}
\* The options exercised by the award action.
AwardTypes == {"star", "heart"}
PresetNames == {"set"}
\* Reward step inputs: thresholds and texts typed into the step editors.
Thresholds == {0, 5, 10}
StepTexts == {"", "A", "B", "C", "1000"}
\* Thresholds typed while the step list is filled to its cap.
CapThresholds == {0, 5}
\* Totals the reward evaluation is asked about.
Totals == {0, 4, 5, 12}

\* Offsets of the device's clock from UTC, in half days: behind, none, ahead.
TimeZones == {0, 1, 2}

\* Digits pressed on the pad when any digit may be pressed.
PinDigits == {1, 2, 3, 4}

\* The PINs typed into the change flow: the current one, a new one, a slip.
ChangePins == {<<1, 2, 3, 4>>, <<5, 6, 7, 8>>, <<5, 6, 7, 9>>}

\* activeMissionId = null.
NoId == 0
\* The message of the parent view before any summary, line 420.
Greeting == "Hello! Shall we start today's missions?"
\* Summaries the API may return.
Summaries == {"Well done", ""}

\* localStorage.getItem(PIN_KEY) = null.
NoPin == <<>>
\* A mission that was never completed has no completedAt (line 59).
Never == 0 - 1
\* What the store holds under PIN_KEY at launch: nothing, or a PIN put there
\* from outside (the code reads the key, line 621, and never writes it).
StoredPins == {NoPin, <<4, 3, 2, 1>>}

VARIABLES
  mode,            \* 'child' | 'parent' | 'auth' | 'archives' | 'timeWarpAuth'
  pinInput,        \* digits typed so far
  pinChangeStep,   \* 'none' | 'current' | 'new' | 'verify' | 'confirm'
  tempNewPin,      \* candidate PIN of the change flow
  savedPin,        \* localStorage[PIN_KEY], NoPin when absent
  clearTimers,     \* number of scheduled setTimeout(() => setPinInput(''), 500)
  missions,        \* Mission[]
  activeMissionId, \* id of the mission whose timer is shown, NoId for null
  missionLogs,     \* MissionLog[]
  lastReset,       \* localStorage[LAST_RESET_KEY]
  stickers,        \* StickerDay[] of the active board
  bonusStickers,   \* bonus balance
  archives,        \* ArchiveEntry[], newest first
  currentMonthId,  \* month id of the active board
  storedMonthId,   \* localStorage[CURRENT_MONTH_KEY]
  presets,         \* MissionPreset[]
  rewardConfig,    \* RewardConfig
  clock,           \* half days elapsed since the first launch
  tz,              \* the device's offset from UTC: 0 behind, 1 none, 2 ahead
  lastOp,          \* the last watched event delivered, with its input
  watch,           \* the events lastOp records; the others leave "other"
  timeLeft,        \* seconds left on the mounted CircularTimer, 0 when none
  isActive,        \* the mounted CircularTimer runs (not paused)
  online,          \* the generative API can be reached from this device
  speechCalls,     \* speech calls awaited by handleSelectSticker
  summaryCalls,    \* summary calls awaited by generateAiMessage
  aiMessage        \* the message shown on the parent view

pinVars == <<pinInput, pinChangeStep, tempNewPin, savedPin, clearTimers>>
missionVars == <<missions, activeMissionId, missionLogs, lastReset>>
stickerVars == <<stickers, bonusStickers, archives, currentMonthId, storedMonthId>>
clockVars == <<clock, tz>>
timerVars == <<timeLeft, isActive>>
extVars == <<online, speechCalls, summaryCalls, aiMessage>>
vars == <<mode, pinVars, missionVars, stickerVars, presets, rewardConfig,
          clockVars, lastOp, watch, timerVars, extVars>>

\* What an event leaves in lastOp.
Op(name, arg) ==
  IF name \in watch THEN [op |-> name, arg |-> arg] ELSE [op |-> "other", arg |-> ""]

(***************************************************************************)
(* Clock and dates.  A date 'YYYY-MM-DD' is a record of a month number and *)
(* a day of that month, a month id 'YYYY-MM' is the month number; both are *)
(* zero padded by the code, so equal strings are equal records.            *)
(***************************************************************************)
DateOf(k) == [month |-> 1 + (k \div DaysPerMonth), day |-> 1 + (k % DaysPerMonth)]

\* The UTC calendar day new Date().toISOString() is in.
UtcDay(c) == (c + 1) \div 2
\* The local calendar day getFullYear()/getMonth() are taken from.
LocalDay(c, z) == (c + z) \div 2

getTodayStr == DateOf(UtcDay(clock))
getCurrentMonthId == DateOf(LocalDay(clock, tz)).month

\* The dates of a month in ascending order: the loop of lines 595-598.
MonthDate(m, i) == [month |-> m, day |-> i]

(***************************************************************************)
(* Sequence helpers: Array.prototype.map / filter / some / reduce.         *)
(***************************************************************************)
Range(s) == {s[i] : i \in 1..Len(s)}

RECURSIVE SumCounts(_)
SumCounts(s) == IF s = <<>> THEN 0 ELSE Head(s).count + SumCounts(Tail(s))

\* Math.random().toString(36).substr(2, 9): a token no live object carries.
SmallestFree(used) ==
  CHOOSE i \in 1..(Cardinality(used) + 1) :
    i \notin used /\ \A j \in 1..(i - 1) : j \in used

(***************************************************************************)
(* Derived values of a render, lines 647-650.                              *)
(***************************************************************************)
MissionIds == {missions[i].id : i \in 1..Len(missions)}
activeMissionExists == \E i \in 1..Len(missions) : missions[i].id = activeMissionId
pendingMissions == SelectSeq(missions, LAMBDA m : m.status = "pending")
hasStickerToday ==
  \E i \in 1..Len(stickers) :
    stickers[i].date = getTodayStr /\ stickers[i].count > 0
canSelectSticker ==
  /\ Len(pendingMissions) = 0
  /\ ~hasStickerToday
  /\ Len(missions) > 0
  /\ ~activeMissionExists

\* The mission list of the child view is rendered, lines 890-905.
missionListShown == mode = "child" /\ ~activeMissionExists /\ ~hasStickerToday
\* The CircularTimer of the active mission is mounted, lines 890-893.
timerShown == mode = "child" /\ activeMissionExists
\* The mission whose timer is shown (activeMission, line 647).
activeMission == CHOOSE m \in Range(missions) : m.id = activeMissionId

\* Seconds of a minute, line 185.
SecondsPerMinute == 60

\* The state of the CircularTimer after an event: the instance lives while
\* the active mission view stays rendered; a newly rendered view mounts a
\* new one with useState(durationMinutes * 60) and useState(true), lines
\* 185-186; with no view there is no timer.
Remount ==
  /\ timeLeft' = IF ~timerShown' THEN 0
                 ELSE IF timerShown THEN timeLeft
                 ELSE activeMission'.durationMinutes * SecondsPerMinute
  /\ isActive' = IF ~timerShown' THEN FALSE
                 ELSE IF timerShown THEN isActive
                 ELSE TRUE

(***************************************************************************)
(* State after construction: the first launch on a fresh store.  The load  *)
(* effect finds no missions, stamps the reset date and the month id; the   *)
(* bonus balance is what the store was provisioned with (the code reads    *)
(* and decrements it, nothing in src/ grants one).                         *)
(***************************************************************************)
\* Everything but the view, the step of the PIN flow and the stored PIN.
FreshStore ==
  /\ pinInput = <<>>
  /\ tempNewPin = <<>>
  /\ clearTimers = 0
  /\ missions = <<>>
  /\ activeMissionId = NoId
  /\ missionLogs = <<>>
  /\ clock = 0
  /\ tz \in TimeZones
  /\ lastReset = DateOf(UtcDay(0))
  /\ stickers = <<>>
  /\ bonusStickers \in Int
  /\ archives = <<>>
  /\ currentMonthId = DateOf(LocalDay(0, tz)).month
  /\ storedMonthId = currentMonthId
  /\ presets = <<>>
  /\ rewardConfig = [type |-> "currency", steps |-> <<>>]
  /\ lastOp = [op |-> "other", arg |-> ""]
  /\ watch \in SUBSET STRING
  /\ timeLeft = 0
  /\ isActive = FALSE
  /\ online \in BOOLEAN
  /\ speechCalls = 0
  /\ summaryCalls = 0
  /\ aiMessage = Greeting

Fresh ==
  /\ mode = "child"
  /\ pinChangeStep = "none"
  /\ savedPin = NoPin
  /\ FreshStore

(***************************************************************************)
(* Time passes.                                                            *)
(***************************************************************************)
\* Mutation: the statuses are reset when the date changes.
Tick_ResetsAtMidnight ==
  /\ clock' = clock + 1
  /\ missions' = IF DateOf(UtcDay(clock + 1)) # getTodayStr
                   THEN [i \in 1..Len(missions) |-> [missions[i] EXCEPT !.status = "pending"]]
                   ELSE missions
  /\ watch' = watch
  /\ lastOp' = Op("Tick", "")
  /\ UNCHANGED <<mode, pinVars, activeMissionId, missionLogs, lastReset,
                 stickerVars, presets, rewardConfig, tz>>
  /\ UNCHANGED extVars
  /\ Remount

Tick ==
  /\ clock' = clock + 1
  /\ watch' = watch
  /\ lastOp' = Op("Tick", "")
  /\ UNCHANGED <<mode, pinVars, missionVars, stickerVars, presets, rewardConfig, tz>>
  /\ UNCHANGED extVars
  /\ Remount

(***************************************************************************)
(* Mission handlers, lines 553-578, behind the controls that reach them.   *)
(***************************************************************************)
NewMission(id, t) ==
  [id |-> id, title |-> t.title, durationMinutes |-> t.durationMinutes,
   reward |-> t.reward, status |-> "pending", completedAt |-> Never]

SetStatus(ms, id, st) ==
  [i \in 1..Len(ms) |-> IF ms[i].id = id THEN [ms[i] EXCEPT !.status = st] ELSE ms[i]]

\* The completedAt of line 575: the clock at the completion.
Stamp(ms, id, now) ==
  [i \in 1..Len(ms) |-> IF ms[i].id = id THEN [ms[i] EXCEPT !.completedAt = now] ELSE ms[i]]

\* handleAddMission, submitted from the add form of the parent view.
HandleAddMission(title, duration, reward) ==
  /\ mode = "parent"
  /\ missions' = Append(missions,
       NewMission(SmallestFree(MissionIds \cup {activeMissionId}),
                  [title |-> title, durationMinutes |-> duration, reward |-> reward]))
  /\ watch' = watch
  /\ lastOp' = Op("AddMission", title)
  /\ UNCHANGED <<mode, pinVars, activeMissionId, missionLogs, lastReset,
                 stickerVars, presets, rewardConfig, clockVars>>
  /\ UNCHANGED extVars
  /\ Remount

\* Mutation: the delete also takes the mission's entries out of the log.
HandleDeleteMission_DropsLogs(id) ==
  /\ mode = "parent"
  /\ id \in MissionIds
  /\ missions' = SelectSeq(missions, LAMBDA m : m.id # id)
  /\ missionLogs' = SelectSeq(missionLogs,
       LAMBDA l : \A i \in 1..Len(missions) : missions[i].id = id => l.title # missions[i].title)
  /\ watch' = watch
  /\ lastOp' = Op("DeleteMission", "")
  /\ UNCHANGED <<mode, pinVars, activeMissionId, lastReset,
                 stickerVars, presets, rewardConfig, clockVars>>
  /\ UNCHANGED extVars
  /\ Remount

\* handleDeleteMission, the trash button of a mission card in the parent view.
HandleDeleteMission(id) ==
  /\ mode = "parent"
  /\ id \in MissionIds
  /\ missions' = SelectSeq(missions, LAMBDA m : m.id # id)
  /\ watch' = watch
  /\ lastOp' = Op("DeleteMission", "")
  /\ UNCHANGED <<mode, pinVars, activeMissionId, missionLogs, lastReset,
                 stickerVars, presets, rewardConfig, clockVars>>
  /\ UNCHANGED extVars
  /\ Remount

\* The delete-all button, line 802; the parent may decline the confirm().
DeleteAllMissions(confirmed) ==
  /\ mode = "parent"
  /\ missions' = IF confirmed THEN <<>> ELSE missions
  /\ watch' = watch
  /\ lastOp' = Op("DeleteAllMissions", IF confirmed THEN "yes" ELSE "no")
  /\ UNCHANGED <<mode, pinVars, activeMissionId, missionLogs, lastReset,
                 stickerVars, presets, rewardConfig, clockVars>>
  /\ UNCHANGED extVars
  /\ Remount

\* handleStartMission.
startMission(id) ==
  /\ missions' = SetStatus(missions, id, "active")
  /\ activeMissionId' = id

\* A tap on a mission card of the child view, lines 924-927: the card is
\* disabled once its mission is completed.  The start mounts the timer of
\* the mission (line 893) with timeLeft = durationMinutes * 60 (line 185),
\* and the timer's effect runs with the mount: with no time left it calls
\* onComplete at once (lines 189-197), which is handleCompleteMission on the
\* mission just started.
HandleStartMission(id) ==
  /\ missionListShown
  /\ \E i \in 1..Len(missions) : missions[i].id = id /\ missions[i].status # "completed"
  /\ LET m == CHOOSE x \in Range(missions) : x.id = id
     IN IF m.durationMinutes * 60 > 0
          THEN startMission(id) /\ missionLogs' = missionLogs
          ELSE /\ missions' = Stamp(SetStatus(missions, id, "completed"), id, clock)
               /\ missionLogs' = Append(missionLogs, [date |-> getTodayStr, title |-> m.title])
               /\ activeMissionId' = NoId
  /\ watch' = watch
  /\ lastOp' = Op("StartMission", "")
  /\ UNCHANGED <<mode, pinVars, lastReset,
                 stickerVars, presets, rewardConfig, clockVars>>
  /\ UNCHANGED extVars
  /\ Remount

\* handleCancelMission, the reset button of the timer (onCancel, line 893).
HandleCancelMission ==
  /\ timerShown
  /\ missions' = SetStatus(missions, activeMissionId, "pending")
  /\ activeMissionId' = NoId
  /\ watch' = watch
  /\ lastOp' = Op("CancelMission", "")
  /\ UNCHANGED <<mode, pinVars, missionLogs, lastReset,
                 stickerVars, presets, rewardConfig, clockVars>>
  /\ UNCHANGED extVars
  /\ Remount

\* Mutation: the completion leaves activeMissionId as it is.
completeMission_KeepsPointer(id) ==
  /\ IF id \in MissionIds
       THEN LET m == CHOOSE x \in Range(missions) : x.id = id
            IN /\ missionLogs' = Append(missionLogs, [date |-> getTodayStr, title |-> m.title])
               /\ missions' = Stamp(SetStatus(missions, id, "completed"), id, clock)
       ELSE UNCHANGED <<missions, missionLogs>>
  /\ activeMissionId' = activeMissionId

\* Mutation: the completion does not stamp completedAt.
completeMission_NoStamp(id) ==
  /\ IF id \in MissionIds
       THEN LET m == CHOOSE x \in Range(missions) : x.id = id
            IN /\ missionLogs' = Append(missionLogs, [date |-> getTodayStr, title |-> m.title])
               /\ missions' = SetStatus(missions, id, "completed")
       ELSE UNCHANGED <<missions, missionLogs>>
  /\ activeMissionId' = NoId

\* handleCompleteMission.
completeMission(id) ==
  /\ IF id \in MissionIds
       THEN LET m == CHOOSE x \in Range(missions) : x.id = id
            IN /\ missionLogs' = Append(missionLogs, [date |-> getTodayStr, title |-> m.title])
               /\ missions' = Stamp(SetStatus(missions, id, "completed"), id, clock)
       ELSE UNCHANGED <<missions, missionLogs>>
  /\ activeMissionId' = NoId

\* Mutation: the interval runs whether or not the timer is paused.
TimerTick_IgnoresPause ==
  /\ timerShown
  /\ timeLeft > 0
  /\ IF timeLeft - 1 > 0
       THEN /\ timeLeft' = timeLeft - 1
            /\ isActive' = isActive
            /\ UNCHANGED <<missions, missionLogs, activeMissionId>>
       ELSE /\ completeMission(activeMissionId)
            /\ timeLeft' = 0
            /\ isActive' = FALSE
  /\ watch' = watch
  /\ lastOp' = Op("TimerTick", "")
  /\ UNCHANGED <<mode, pinVars, lastReset, stickerVars, presets, rewardConfig, clockVars>>
  /\ UNCHANGED extVars

\* One second of the running timer, lines 189-200: the interval decrements
\* timeLeft; the effect that follows the render finds timeLeft <= 0 and
\* calls onComplete (handleCompleteMission of the active mission, line 893),
\* which clears the pointer, and the view with the timer is gone.
TimerTick ==
  /\ timerShown
  /\ isActive
  /\ timeLeft > 0
  /\ IF timeLeft - 1 > 0
       THEN /\ timeLeft' = timeLeft - 1
            /\ isActive' = isActive
            /\ UNCHANGED <<missions, missionLogs, activeMissionId>>
       ELSE /\ completeMission(activeMissionId)
            /\ timeLeft' = 0
            /\ isActive' = FALSE
  /\ watch' = watch
  /\ lastOp' = Op("TimerTick", "")
  /\ UNCHANGED <<mode, pinVars, lastReset, stickerVars, presets, rewardConfig, clockVars>>
  /\ UNCHANGED extVars

\* The pause / play button of the timer, line 238.
TogglePause ==
  /\ timerShown
  /\ isActive' = ~isActive
  /\ timeLeft' = timeLeft
  /\ watch' = watch
  /\ lastOp' = Op("TogglePause", "")
  /\ UNCHANGED <<mode, pinVars, missionVars, stickerVars, presets, rewardConfig, clockVars>>
  /\ UNCHANGED extVars

\* The remaining seconds of the running timer elapse and the countdown
\* reaches zero (onComplete, line 893).
TimerComplete ==
  /\ timerShown
  /\ isActive
  /\ completeMission(activeMissionId)
  /\ watch' = watch
  /\ lastOp' = Op("TimerComplete", "")
  /\ UNCHANGED <<mode, pinVars, lastReset, stickerVars, presets, rewardConfig, clockVars>>
  /\ UNCHANGED extVars
  /\ Remount

(***************************************************************************)
(* Sticker award engine, lines 580-603.                                    *)
(***************************************************************************)
AwardEntry(date, type) == [date |-> date, count |-> 1, stickerType |-> type]
BonusEntry(date) == [date |-> date, count |-> 1, isBonusUsed |-> TRUE, stickerType |-> "star"]

\* handleSelectSticker: the entry is appended, then the speech call is
\* awaited (line 586); a device that cannot reach the API has the call fail
\* (caught, line 506) before the next event.
selectSticker(type) ==
  IF \E i \in 1..Len(stickers) :
       stickers[i].date = getTodayStr /\ stickers[i].count > 0
    THEN stickers' = stickers /\ speechCalls' = speechCalls
    ELSE /\ stickers' = Append(stickers, AwardEntry(getTodayStr, type))
         /\ speechCalls' = IF online THEN speechCalls + 1 ELSE speechCalls

\* Mutation: the option is always enabled and the handler appends without
\* looking for today's entry.
HandleSelectSticker_Unguarded(type) ==
  /\ mode = "child"
  /\ stickers' = Append(stickers, AwardEntry(getTodayStr, type))
  /\ speechCalls' = IF online THEN speechCalls + 1 ELSE speechCalls
  /\ watch' = watch
  /\ lastOp' = Op("SelectSticker", type)
  /\ UNCHANGED <<mode, pinVars, missionVars, bonusStickers, archives,
                 currentMonthId, storedMonthId, presets, rewardConfig, clockVars>>
  /\ UNCHANGED <<online, summaryCalls, aiMessage>>
  /\ Remount

\* Mutation: only awarded entries count as today's sticker.
HandleSelectSticker_IgnoresBonus(type) ==
  /\ mode = "child"
  /\ IF /\ Len(pendingMissions) = 0 /\ Len(missions) > 0 /\ ~activeMissionExists
        /\ ~\E i \in 1..Len(stickers) :
              /\ stickers[i].date = getTodayStr /\ stickers[i].count > 0
              /\ "isBonusUsed" \notin DOMAIN stickers[i]
       THEN /\ stickers' = Append(stickers, AwardEntry(getTodayStr, type))
            /\ speechCalls' = IF online THEN speechCalls + 1 ELSE speechCalls
       ELSE stickers' = stickers /\ speechCalls' = speechCalls
  /\ watch' = watch
  /\ lastOp' = Op("SelectSticker", type)
  /\ UNCHANGED <<mode, pinVars, missionVars, bonusStickers, archives,
                 currentMonthId, storedMonthId, presets, rewardConfig, clockVars>>
  /\ UNCHANGED <<online, summaryCalls, aiMessage>>
  /\ Remount

\* A tap on a sticker option of the child view's board, lines 358-368 and
\* 887: the option is disabled unless canSelectSticker.
HandleSelectSticker(type) ==
  /\ mode = "child"
  /\ IF canSelectSticker
       THEN selectSticker(type)
       ELSE stickers' = stickers /\ speechCalls' = speechCalls
  /\ watch' = watch
  /\ lastOp' = Op("SelectSticker", type)
  /\ UNCHANGED <<mode, pinVars, missionVars, bonusStickers, archives,
                 currentMonthId, storedMonthId, presets, rewardConfig, clockVars>>
  /\ UNCHANGED <<online, summaryCalls, aiMessage>>
  /\ Remount

\* An awaited speech call returns or throws, lines 482-508: the audio is
\* played or the error is logged, and handleSelectSticker goes on to
\* schedule the end of the confetti (line 587).
SpeechSettles(ok) ==
  /\ speechCalls > 0
  /\ speechCalls' = speechCalls - 1
  /\ watch' = watch
  /\ lastOp' = Op("SpeechSettles", IF ok THEN "ok" ELSE "error")
  /\ UNCHANGED <<mode, pinVars, missionVars, stickerVars, presets, rewardConfig,
                 clockVars, timerVars, online, summaryCalls, aiMessage>>

\* The 'generate again' button of the parent view, line 792:
\* generateAiMessage returns at once when the profile has no name (line
\* 512), otherwise it awaits the summary call.
GenerateAiMessage(named) ==
  /\ mode = "parent"
  /\ summaryCalls' = IF named /\ online THEN summaryCalls + 1 ELSE summaryCalls
  /\ watch' = watch
  /\ lastOp' = Op("GenerateAiMessage", IF named THEN "named" ELSE "unnamed")
  /\ UNCHANGED <<mode, pinVars, missionVars, stickerVars, presets, rewardConfig,
                 clockVars, timerVars, online, speechCalls, aiMessage>>

\* Mutation: a failed summary blanks the message.
SummarySettles_ClearsOnFailure(ok, text) ==
  /\ summaryCalls > 0
  /\ summaryCalls' = summaryCalls - 1
  /\ aiMessage' = IF ok /\ text # "" THEN text ELSE ""
  /\ watch' = watch
  /\ lastOp' = Op("SummarySettles", IF ok THEN "ok" ELSE "error")
  /\ UNCHANGED <<mode, pinVars, missionVars, stickerVars, presets, rewardConfig,
                 clockVars, timerVars, online, speechCalls>>

\* An awaited summary call returns or throws, lines 525-532: a text that is
\* not empty replaces the message, an error is logged.
SummarySettles(ok, text) ==
  /\ summaryCalls > 0
  /\ summaryCalls' = summaryCalls - 1
  /\ aiMessage' = IF ok /\ text # "" THEN text ELSE aiMessage
  /\ watch' = watch
  /\ lastOp' = Op("SummarySettles", IF ok THEN "ok" ELSE "error")
  /\ UNCHANGED <<mode, pinVars, missionVars, stickerVars, presets, rewardConfig,
                 clockVars, timerVars, online, speechCalls>>

\* The days of the board's month that carry no entry, lines 593-598.
EmptyDays(board, m) ==
  {i \in 1..DaysPerMonth : \A k \in 1..Len(board) : board[k].date # MonthDate(m, i)}

\* Mutation: the loop takes day 1 without consulting the map of filled days.
TargetDay_Unchecked(board, m) == 1

\* Mutation: the loop keeps the last empty day it meets (no break).
TargetDay_Last(board, m) ==
  IF EmptyDays(board, m) = {} THEN 0
  ELSE CHOOSE i \in EmptyDays(board, m) : \A j \in EmptyDays(board, m) : i >= j

\* targetDateStr: the first day the loop reaches, 0 for null.
TargetDay(board, m) ==
  IF EmptyDays(board, m) = {} THEN 0
  ELSE CHOOSE i \in EmptyDays(board, m) : \A j \in EmptyDays(board, m) : i <= j

\* Mutation: the balance is decremented before a day is looked for.
useBonusSticker_EagerDecrement(confirmed) ==
  LET target == TargetDay(stickers, currentMonthId)
  IN IF bonusStickers <= 0
       THEN UNCHANGED <<bonusStickers, stickers>>
       ELSE /\ bonusStickers' = bonusStickers - 1
            /\ IF target # 0 /\ confirmed
                 THEN stickers' = Append(stickers, BonusEntry(MonthDate(currentMonthId, target)))
                 ELSE stickers' = stickers

\* handleUseBonusSticker; the confirm() is asked only when a day was found.
useBonusSticker(confirmed) ==
  LET target == TargetDay(stickers, currentMonthId)
  IN IF bonusStickers <= 0
       THEN UNCHANGED <<bonusStickers, stickers>>
       ELSE IF target # 0 /\ confirmed
              THEN /\ bonusStickers' = bonusStickers - 1
                   /\ stickers' = Append(stickers, BonusEntry(MonthDate(currentMonthId, target)))
              ELSE UNCHANGED <<bonusStickers, stickers>>

\* Mutation: neither the button nor the handler looks at the balance.
HandleUseBonusSticker_NoBalanceCheck(confirmed) ==
  /\ mode = "child"
  /\ LET target == TargetDay(stickers, currentMonthId)
     IN IF target # 0 /\ confirmed
          THEN /\ bonusStickers' = bonusStickers - 1
               /\ stickers' = Append(stickers, BonusEntry(MonthDate(currentMonthId, target)))
          ELSE UNCHANGED <<bonusStickers, stickers>>
  /\ watch' = watch
  /\ lastOp' = Op("UseBonus", IF confirmed THEN "yes" ELSE "no")
  /\ UNCHANGED <<mode, pinVars, missionVars, archives, currentMonthId, storedMonthId,
                 presets, rewardConfig, clockVars>>
  /\ UNCHANGED extVars
  /\ Remount

\* A tap on the bonus button of the child header, line 870: disabled at 0.
HandleUseBonusSticker(confirmed) ==
  /\ mode = "child"
  /\ IF bonusStickers = 0
       THEN UNCHANGED <<bonusStickers, stickers>>
       ELSE useBonusSticker(confirmed)
  /\ watch' = watch
  /\ lastOp' = Op("UseBonus", IF confirmed THEN "yes" ELSE "no")
  /\ UNCHANGED <<mode, pinVars, missionVars, archives, currentMonthId, storedMonthId,
                 presets, rewardConfig, clockVars>>
  /\ UNCHANGED extVars
  /\ Remount

(***************************************************************************)
(* Month rollover, lines 535-551.                                          *)
(***************************************************************************)
\* Mutation: the snapshot is taken after the board was cleared.
ArchiveOf_AfterClear(monthId, board, now) ==
  [monthId |-> monthId, stickers |-> <<>>, totalStickers |-> 0, archivedAt |-> now]

ArchiveOf(monthId, board, now) ==
  [monthId |-> monthId, stickers |-> board,
   totalStickers |-> SumCounts(board), archivedAt |-> now]

\* Mutation: the rollover leaves the mission log as it is.
HandleStartNewMonth_KeepsLogs(confirmed) ==
  /\ mode = "parent"
  /\ IF confirmed
       THEN /\ archives' = <<ArchiveOf(currentMonthId, stickers, clock)>> \o archives
            /\ currentMonthId' = getCurrentMonthId
            /\ storedMonthId' = getCurrentMonthId
            /\ stickers' = <<>>
            /\ missionLogs' = missionLogs
       ELSE UNCHANGED <<archives, currentMonthId, storedMonthId, stickers, missionLogs>>
  /\ watch' = watch
  /\ lastOp' = Op("StartNewMonth", IF confirmed THEN "yes" ELSE "no")
  /\ UNCHANGED <<mode, pinVars, missions, activeMissionId, lastReset,
                 bonusStickers, presets, rewardConfig, clockVars>>
  /\ UNCHANGED extVars
  /\ Remount

\* Mutation: the new entry is put behind the older ones.
HandleStartNewMonth_Appends(confirmed) ==
  /\ mode = "parent"
  /\ IF confirmed
       THEN /\ archives' = Append(archives, ArchiveOf(currentMonthId, stickers, clock))
            /\ currentMonthId' = getCurrentMonthId
            /\ storedMonthId' = getCurrentMonthId
            /\ stickers' = <<>>
            /\ missionLogs' = <<>>
       ELSE UNCHANGED <<archives, currentMonthId, storedMonthId, stickers, missionLogs>>
  /\ watch' = watch
  /\ lastOp' = Op("StartNewMonth", IF confirmed THEN "yes" ELSE "no")
  /\ UNCHANGED <<mode, pinVars, missions, activeMissionId, lastReset,
                 bonusStickers, presets, rewardConfig, clockVars>>
  /\ UNCHANGED extVars
  /\ Remount

\* handleStartNewMonth, the header button of the parent view.
HandleStartNewMonth(confirmed) ==
  /\ mode = "parent"
  /\ IF confirmed
       THEN /\ archives' = <<ArchiveOf(currentMonthId, stickers, clock)>> \o archives
            /\ currentMonthId' = getCurrentMonthId
            /\ storedMonthId' = getCurrentMonthId
            /\ stickers' = <<>>
            /\ missionLogs' = <<>>
       ELSE UNCHANGED <<archives, currentMonthId, storedMonthId, stickers, missionLogs>>
  /\ watch' = watch
  /\ lastOp' = Op("StartNewMonth", IF confirmed THEN "yes" ELSE "no")
  /\ UNCHANGED <<mode, pinVars, missions, activeMissionId, lastReset,
                 bonusStickers, presets, rewardConfig, clockVars>>
  /\ UNCHANGED extVars
  /\ Remount

(***************************************************************************)
(* Reward tiers: the step editors of the parent view, lines 843-853, and   *)
(* getCurrentReward of the sticker board, lines 300-316.                   *)
(***************************************************************************)
\* Whether step a goes before step b: the sign of the comparator.
Before(a, b, descending) ==
  IF descending THEN a.stickers > b.stickers ELSE a.stickers < b.stickers

\* Insert x behind the steps that do not come after it: Array.prototype.sort
\* is stable.
RECURSIVE InsertStep(_, _, _)
InsertStep(x, s, descending) ==
  IF s = <<>> THEN <<x>>
  ELSE IF Before(x, Head(s), descending) THEN <<x>> \o s
  ELSE <<Head(s)>> \o InsertStep(x, Tail(s), descending)

RECURSIVE SortSteps(_, _)
SortSteps(s, descending) ==
  IF s = <<>> THEN <<>>
  ELSE InsertStep(s[Len(s)], SortSteps(SubSeq(s, 1, Len(s) - 1), descending), descending)

\* sort((a, b) => a.stickers - b.stickers)
SortAscending(steps) == SortSteps(steps, FALSE)

\* Mutation: the comparator's operands are swapped (a.stickers - b.stickers).
SortDescending_Swapped(steps) == SortSteps(steps, FALSE)

\* sort((a, b) => b.stickers - a.stickers)
SortDescending(steps) == SortSteps(steps, TRUE)

\* The select of line 843.
SetRewardType(t) ==
  /\ mode = "parent"
  /\ rewardConfig' = [rewardConfig EXCEPT !.type = t]
  /\ watch' = watch
  /\ lastOp' = Op("SetRewardType", t)
  /\ UNCHANGED <<mode, pinVars, missionVars, stickerVars, presets, clockVars>>
  /\ UNCHANGED extVars
  /\ Remount

\* Mutation: the add-step button has no cap.
AddRewardStep_Uncapped ==
  /\ mode = "parent"
  /\ rewardConfig' = [rewardConfig EXCEPT !.steps =
       SortAscending(Append(rewardConfig.steps, [stickers |-> 0, text |-> ""]))]
  /\ watch' = watch
  /\ lastOp' = Op("AddRewardStep", "")
  /\ UNCHANGED <<mode, pinVars, missionVars, stickerVars, presets, clockVars>>
  /\ UNCHANGED extVars
  /\ Remount

\* The add-step button, line 846.
AddRewardStep ==
  /\ mode = "parent"
  /\ IF Len(rewardConfig.steps) >= MaxRewardSteps
       THEN rewardConfig' = rewardConfig
       ELSE rewardConfig' = [rewardConfig EXCEPT !.steps =
              SortAscending(Append(rewardConfig.steps, [stickers |-> 0, text |-> ""]))]
  /\ watch' = watch
  /\ lastOp' = Op("AddRewardStep", "")
  /\ UNCHANGED <<mode, pinVars, missionVars, stickerVars, presets, clockVars>>
  /\ UNCHANGED extVars
  /\ Remount

\* The trash button of a step card, line 851.
RemoveRewardStep(idx) ==
  /\ mode = "parent"
  /\ idx \in 1..Len(rewardConfig.steps)
  /\ rewardConfig' = [rewardConfig EXCEPT !.steps =
       SubSeq(rewardConfig.steps, 1, idx - 1)
         \o SubSeq(rewardConfig.steps, idx + 1, Len(rewardConfig.steps))]
  /\ watch' = watch
  /\ lastOp' = Op("RemoveRewardStep", "")
  /\ UNCHANGED <<mode, pinVars, missionVars, stickerVars, presets, clockVars>>
  /\ UNCHANGED extVars
  /\ Remount

\* The threshold input of a step card, line 852.
EditStepStickers(idx, n) ==
  /\ mode = "parent"
  /\ idx \in 1..Len(rewardConfig.steps)
  /\ rewardConfig' = [rewardConfig EXCEPT !.steps[idx].stickers = n]
  /\ watch' = watch
  /\ lastOp' = Op("EditStepStickers", "")
  /\ UNCHANGED <<mode, pinVars, missionVars, stickerVars, presets, clockVars>>
  /\ UNCHANGED extVars
  /\ Remount

\* The text input of a step card, line 853.
EditStepText(idx, t) ==
  /\ mode = "parent"
  /\ idx \in 1..Len(rewardConfig.steps)
  /\ rewardConfig' = [rewardConfig EXCEPT !.steps[idx].text = t]
  /\ watch' = watch
  /\ lastOp' = Op("EditStepText", t)
  /\ UNCHANGED <<mode, pinVars, missionVars, stickerVars, presets, clockVars>>
  /\ UNCHANGED extVars
  /\ Remount

\* The placeholder getCurrentReward shows for an empty step list, line 303.
NotConfigured == "(not configured)"
\* !isNaN(Number(text)) on the texts in use: '' converts to 0.
IsNumeric(text) == text \in {"", "0", "1000"}
\* The won sign (written W) before Number(text).toLocaleString(), on the
\* numeric texts in use.
WonOf(text) == IF text = "1000" THEN "W1,000" ELSE "W0"

\* The index of the first step of the sorted list the total reaches, 0 if none.
FirstReached(sorted, total) ==
  IF \E i \in 1..Len(sorted) : total >= sorted[i].stickers
    THEN CHOOSE i \in 1..Len(sorted) :
           /\ total >= sorted[i].stickers
           /\ \A j \in 1..(i - 1) : ~(total >= sorted[j].stickers)
    ELSE 0

\* getCurrentReward of a board showing `board` under `config`.
getCurrentReward(board, config) ==
  IF Len(config.steps) = 0 THEN NotConfigured
  ELSE LET totalStickers == SumCounts(board)
           sortedSteps == SortDescending(config.steps)
           hit == FirstReached(sortedSteps, totalStickers)
           current == IF hit # 0 THEN sortedSteps[hit].text
                      ELSE IF config.steps[1].text # "" THEN config.steps[1].text ELSE "0"
       IN IF config.type = "currency" /\ IsNumeric(current) THEN WonOf(current) ELSE current

(***************************************************************************)
(* Presets, lines 605-618 and 727.                                         *)
(***************************************************************************)
RECURSIVE FreshIds(_, _)
FreshIds(n, used) ==
  IF n = 0 THEN <<>>
  ELSE LET f == SmallestFree(used) IN <<f>> \o FreshIds(n - 1, used \cup {f})

TemplateOf(m) == [title |-> m.title, durationMinutes |-> m.durationMinutes, reward |-> m.reward]

PresetIds == {presets[i].id : i \in 1..Len(presets)}

\* handleSavePreset; an empty or cancelled prompt() saves nothing.
HandleSavePreset(name) ==
  /\ mode = "parent"
  /\ IF name # ""
       THEN presets' = Append(presets,
              [id |-> SmallestFree(PresetIds), name |-> name,
               missions |-> [i \in 1..Len(missions) |-> TemplateOf(missions[i])]])
       ELSE presets' = presets
  /\ watch' = watch
  /\ lastOp' = Op("SavePreset", name)
  /\ UNCHANGED <<mode, pinVars, missionVars, stickerVars, rewardConfig, clockVars>>
  /\ UNCHANGED extVars
  /\ Remount

\* Mutation: the loaded missions are appended to the list.
HandleLoadPreset_Appends(k, confirmed) ==
  /\ mode = "parent"
  /\ k \in 1..Len(presets)
  /\ IF confirmed
       THEN LET tpl == presets[k].missions
                ids == FreshIds(Len(tpl), MissionIds \cup {activeMissionId})
            IN missions' = missions \o [i \in 1..Len(tpl) |-> NewMission(ids[i], tpl[i])]
       ELSE missions' = missions
  /\ watch' = watch
  /\ lastOp' = Op("LoadPreset", IF confirmed THEN "yes" ELSE "no")
  /\ UNCHANGED <<mode, pinVars, activeMissionId, missionLogs, lastReset,
                 stickerVars, presets, rewardConfig, clockVars>>
  /\ UNCHANGED extVars
  /\ Remount

\* handleLoadPreset, the choose button of the preset popup.
HandleLoadPreset(k, confirmed) ==
  /\ mode = "parent"
  /\ k \in 1..Len(presets)
  /\ IF confirmed
       THEN LET tpl == presets[k].missions
                ids == FreshIds(Len(tpl), MissionIds \cup {activeMissionId})
            IN missions' = [i \in 1..Len(tpl) |-> NewMission(ids[i], tpl[i])]
       ELSE missions' = missions
  /\ watch' = watch
  /\ lastOp' = Op("LoadPreset", IF confirmed THEN "yes" ELSE "no")
  /\ UNCHANGED <<mode, pinVars, activeMissionId, missionLogs, lastReset,
                 stickerVars, presets, rewardConfig, clockVars>>
  /\ UNCHANGED extVars
  /\ Remount

\* The trash button of a preset row, line 727.
DeletePreset(id) ==
  /\ mode = "parent"
  /\ id \in PresetIds
  /\ presets' = SelectSeq(presets, LAMBDA p : p.id # id)
  /\ watch' = watch
  /\ lastOp' = Op("DeletePreset", "")
  /\ UNCHANGED <<mode, pinVars, missionVars, stickerVars, rewardConfig, clockVars>>
  /\ UNCHANGED extVars
  /\ Remount

(***************************************************************************)
(* Views and the PIN pad, lines 620-645, 746-749, 760, 871-872, 893, 952.  *)
(***************************************************************************)
SetMode(from, to, name) ==
  /\ mode = from
  /\ mode' = to
  /\ watch' = watch
  /\ lastOp' = Op(name, "")
  /\ UNCHANGED <<pinVars, missionVars, stickerVars, presets, rewardConfig, clockVars>>
  /\ UNCHANGED extVars
  /\ Remount

OpenArchives == SetMode("child", "archives", "OpenArchives")
CloseArchives == SetMode("archives", "child", "CloseArchives")
\* Mutation: the settings button opens the parent view without the pad.
OpenAuth_SkipsPad == SetMode("child", "parent", "OpenAuth")
OpenAuth == SetMode("child", "auth", "OpenAuth")
ExitParent == SetMode("parent", "child", "ExitParent")

\* The time-warp button of the mounted timer (onTimeWarp, line 893).
OpenTimeWarp ==
  /\ timerShown
  /\ mode' = "timeWarpAuth"
  /\ watch' = watch
  /\ lastOp' = Op("OpenTimeWarp", "")
  /\ UNCHANGED <<pinVars, missionVars, stickerVars, presets, rewardConfig, clockVars>>
  /\ UNCHANGED extVars
  /\ Remount

padShown == mode \in {"auth", "timeWarpAuth"}

\* The back button of the pad, line 749.
PinBack ==
  /\ padShown
  /\ IF pinChangeStep # "none"
       THEN pinChangeStep' = "none" /\ pinInput' = <<>> /\ mode' = mode
       ELSE mode' = "child" /\ UNCHANGED <<pinChangeStep, pinInput>>
  /\ watch' = watch
  /\ lastOp' = Op("PinBack", "")
  /\ UNCHANGED <<tempNewPin, savedPin, clearTimers, missionVars, stickerVars,
                 presets, rewardConfig, clockVars>>
  /\ UNCHANGED extVars
  /\ Remount

\* Mutation: the reset button also cancels the scheduled clears.
PinReset_CancelsClears ==
  /\ padShown
  /\ pinInput' = <<>>
  /\ clearTimers' = 0
  /\ watch' = watch
  /\ lastOp' = Op("PinReset", "")
  /\ UNCHANGED <<mode, pinChangeStep, tempNewPin, savedPin,
                 missionVars, stickerVars, presets, rewardConfig, clockVars>>
  /\ UNCHANGED extVars
  /\ Remount

\* The reset button of the pad, line 747.
PinReset ==
  /\ padShown
  /\ pinInput' = <<>>
  /\ watch' = watch
  /\ lastOp' = Op("PinReset", "")
  /\ UNCHANGED <<mode, pinChangeStep, tempNewPin, savedPin, clearTimers,
                 missionVars, stickerVars, presets, rewardConfig, clockVars>>
  /\ UNCHANGED extVars
  /\ Remount

\* Mutation: the stored PIN is ignored.
currentSavedPin_DefaultOnly == DEFAULT_PIN

currentSavedPin == IF savedPin = NoPin THEN DEFAULT_PIN ELSE savedPin

\* Mutation: a failed verification stays in the verify step.
HandlePinInput_VerifyStays(digit) ==
  LET nextInput == Append(pinInput, digit)
  IN /\ padShown
     /\ watch' = watch
     /\ lastOp' = Op("PinInput", ToString(digit))
     /\ UNCHANGED <<savedPin, lastReset, stickerVars, presets, rewardConfig, clockVars>>
     /\ IF mode = "timeWarpAuth"
          THEN /\ UNCHANGED <<pinChangeStep, tempNewPin>>
               /\ IF nextInput = currentSavedPin
                    THEN /\ IF activeMissionId # NoId
                              THEN completeMission(activeMissionId)
                              ELSE UNCHANGED <<missions, missionLogs, activeMissionId>>
                         /\ mode' = "child"
                         /\ pinInput' = <<>>
                         /\ clearTimers' = clearTimers
                    ELSE /\ pinInput' = nextInput
                         /\ clearTimers' = IF Len(nextInput) = PinLength
                                             THEN clearTimers + 1 ELSE clearTimers
                         /\ UNCHANGED <<mode, missions, missionLogs, activeMissionId>>
          ELSE /\ UNCHANGED <<missions, missionLogs, activeMissionId>>
               /\ CASE pinChangeStep = "none" ->
                         IF nextInput = currentSavedPin
                           THEN /\ mode' = "parent" /\ pinInput' = <<>>
                                /\ UNCHANGED <<pinChangeStep, tempNewPin, clearTimers>>
                           ELSE /\ pinInput' = nextInput
                                /\ clearTimers' = IF Len(nextInput) = PinLength
                                                    THEN clearTimers + 1 ELSE clearTimers
                                /\ UNCHANGED <<mode, pinChangeStep, tempNewPin>>
                    [] pinChangeStep = "current" ->
                         IF nextInput = currentSavedPin
                           THEN /\ pinChangeStep' = "new" /\ pinInput' = <<>>
                                /\ UNCHANGED <<mode, tempNewPin, clearTimers>>
                           ELSE /\ pinInput' = IF Len(nextInput) = PinLength THEN <<>> ELSE nextInput
                                /\ UNCHANGED <<mode, pinChangeStep, tempNewPin, clearTimers>>
                    [] pinChangeStep = "new" /\ Len(nextInput) = PinLength ->
                         /\ tempNewPin' = nextInput /\ pinChangeStep' = "verify"
                         /\ pinInput' = <<>>
                         /\ UNCHANGED <<mode, clearTimers>>
                    [] pinChangeStep = "verify" /\ Len(nextInput) = PinLength ->
                         /\ pinChangeStep' = IF nextInput = tempNewPin THEN "confirm" ELSE "verify"
                         /\ pinInput' = <<>>
                         /\ UNCHANGED <<mode, tempNewPin, clearTimers>>
                    [] OTHER ->
                         /\ pinInput' = nextInput
                         /\ UNCHANGED <<mode, pinChangeStep, tempNewPin, clearTimers>>
     /\ UNCHANGED extVars
     /\ Remount

\* Mutation: any four digits authorize the time warp.
HandlePinInput_WarpAnyFour(digit) ==
  LET nextInput == Append(pinInput, digit)
  IN /\ padShown
     /\ watch' = watch
     /\ lastOp' = Op("PinInput", ToString(digit))
     /\ UNCHANGED <<savedPin, lastReset, stickerVars, presets, rewardConfig, clockVars>>
     /\ IF mode = "timeWarpAuth"
          THEN /\ UNCHANGED <<pinChangeStep, tempNewPin>>
               /\ IF Len(nextInput) = PinLength
                    THEN /\ IF activeMissionId # NoId
                              THEN completeMission(activeMissionId)
                              ELSE UNCHANGED <<missions, missionLogs, activeMissionId>>
                         /\ mode' = "child"
                         /\ pinInput' = <<>>
                         /\ clearTimers' = clearTimers
                    ELSE /\ pinInput' = nextInput
                         /\ clearTimers' = IF Len(nextInput) = PinLength
                                             THEN clearTimers + 1 ELSE clearTimers
                         /\ UNCHANGED <<mode, missions, missionLogs, activeMissionId>>
          ELSE /\ UNCHANGED <<missions, missionLogs, activeMissionId>>
               /\ CASE pinChangeStep = "none" ->
                         IF nextInput = currentSavedPin
                           THEN /\ mode' = "parent" /\ pinInput' = <<>>
                                /\ UNCHANGED <<pinChangeStep, tempNewPin, clearTimers>>
                           ELSE /\ pinInput' = nextInput
                                /\ clearTimers' = IF Len(nextInput) = PinLength
                                                    THEN clearTimers + 1 ELSE clearTimers
                                /\ UNCHANGED <<mode, pinChangeStep, tempNewPin>>
                    [] pinChangeStep = "current" ->
                         IF nextInput = currentSavedPin
                           THEN /\ pinChangeStep' = "new" /\ pinInput' = <<>>
                                /\ UNCHANGED <<mode, tempNewPin, clearTimers>>
                           ELSE /\ pinInput' = IF Len(nextInput) = PinLength THEN <<>> ELSE nextInput
                                /\ UNCHANGED <<mode, pinChangeStep, tempNewPin, clearTimers>>
                    [] pinChangeStep = "new" /\ Len(nextInput) = PinLength ->
                         /\ tempNewPin' = nextInput /\ pinChangeStep' = "verify"
                         /\ pinInput' = <<>>
                         /\ UNCHANGED <<mode, clearTimers>>
                    [] pinChangeStep = "verify" /\ Len(nextInput) = PinLength ->
                         /\ pinChangeStep' = IF nextInput = tempNewPin THEN "confirm" ELSE "new"
                         /\ pinInput' = <<>>
                         /\ UNCHANGED <<mode, tempNewPin, clearTimers>>
                    [] OTHER ->
                         /\ pinInput' = nextInput
                         /\ UNCHANGED <<mode, pinChangeStep, tempNewPin, clearTimers>>
     /\ UNCHANGED extVars
     /\ Remount


\* handlePinInput, a digit button of the pad.
HandlePinInput(digit) ==
  LET nextInput == Append(pinInput, digit)
  IN /\ padShown
     /\ watch' = watch
     /\ lastOp' = Op("PinInput", ToString(digit))
     /\ UNCHANGED <<savedPin, lastReset, stickerVars, presets, rewardConfig, clockVars>>
     /\ IF mode = "timeWarpAuth"
          THEN /\ UNCHANGED <<pinChangeStep, tempNewPin>>
               /\ IF nextInput = currentSavedPin
                    THEN /\ IF activeMissionId # NoId
                              THEN completeMission(activeMissionId)
                              ELSE UNCHANGED <<missions, missionLogs, activeMissionId>>
                         /\ mode' = "child"
                         /\ pinInput' = <<>>
                         /\ clearTimers' = clearTimers
                    ELSE /\ pinInput' = nextInput
                         /\ clearTimers' = IF Len(nextInput) = PinLength
                                             THEN clearTimers + 1 ELSE clearTimers
                         /\ UNCHANGED <<mode, missions, missionLogs, activeMissionId>>
          ELSE /\ UNCHANGED <<missions, missionLogs, activeMissionId>>
               /\ CASE pinChangeStep = "none" ->
                         IF nextInput = currentSavedPin
                           THEN /\ mode' = "parent" /\ pinInput' = <<>>
                                /\ UNCHANGED <<pinChangeStep, tempNewPin, clearTimers>>
                           ELSE /\ pinInput' = nextInput
                                /\ clearTimers' = IF Len(nextInput) = PinLength
                                                    THEN clearTimers + 1 ELSE clearTimers
                                /\ UNCHANGED <<mode, pinChangeStep, tempNewPin>>
                    [] pinChangeStep = "current" ->
                         IF nextInput = currentSavedPin
                           THEN /\ pinChangeStep' = "new" /\ pinInput' = <<>>
                                /\ UNCHANGED <<mode, tempNewPin, clearTimers>>
                           ELSE /\ pinInput' = IF Len(nextInput) = PinLength THEN <<>> ELSE nextInput
                                /\ UNCHANGED <<mode, pinChangeStep, tempNewPin, clearTimers>>
                    [] pinChangeStep = "new" /\ Len(nextInput) = PinLength ->
                         /\ tempNewPin' = nextInput /\ pinChangeStep' = "verify"
                         /\ pinInput' = <<>>
                         /\ UNCHANGED <<mode, clearTimers>>
                    [] pinChangeStep = "verify" /\ Len(nextInput) = PinLength ->
                         /\ pinChangeStep' = IF nextInput = tempNewPin THEN "confirm" ELSE "new"
                         /\ pinInput' = <<>>
                         /\ UNCHANGED <<mode, tempNewPin, clearTimers>>
                    [] OTHER ->
                         /\ pinInput' = nextInput
                         /\ UNCHANGED <<mode, pinChangeStep, tempNewPin, clearTimers>>
     /\ UNCHANGED extVars
     /\ Remount

\* Mutation: the scheduled callback runs without clearing the buffer.
ClearTimerFires_KeepsBuffer ==
  /\ clearTimers > 0
  /\ clearTimers' = clearTimers - 1
  /\ pinInput' = pinInput
  /\ watch' = watch
  /\ lastOp' = Op("ClearTimerFires", "")
  /\ UNCHANGED <<mode, pinChangeStep, tempNewPin, savedPin, missionVars,
                 stickerVars, presets, rewardConfig, clockVars>>
  /\ UNCHANGED extVars
  /\ Remount

\* A scheduled setTimeout(() => setPinInput(''), 500) fires, lines 630, 636.
ClearTimerFires ==
  /\ clearTimers > 0
  /\ clearTimers' = clearTimers - 1
  /\ pinInput' = <<>>
  /\ watch' = watch
  /\ lastOp' = Op("ClearTimerFires", "")
  /\ UNCHANGED <<mode, pinChangeStep, tempNewPin, savedPin, missionVars,
                 stickerVars, presets, rewardConfig, clockVars>>
  /\ UNCHANGED extVars
  /\ Remount

\* The parent types the next digit of the stored PIN.
TypePinDigit ==
  /\ Len(pinInput) < Len(currentSavedPin)
  /\ HandlePinInput(currentSavedPin[Len(pinInput) + 1])

(***************************************************************************)
(* Session load, lines 432-469: the component is mounted anew, its state   *)
(* is read back from the store, and the daily reset is applied.            *)
(***************************************************************************)
ResetStatuses(ms) == [i \in 1..Len(ms) |-> [ms[i] EXCEPT !.status = "pending"]]

\* JSON.stringify writes an object as the list of its members in the order
\* they were created, leaving out the members that are undefined; JSON.parse
\* reads the members back.  A mission that has no completedAt and a sticker
\* that has no isBonusUsed are written without that member.
JsonMission(m) ==
  <<m.id, m.title, m.durationMinutes, m.reward, m.status>>
    \o (IF m.completedAt = Never THEN <<>> ELSE <<m.completedAt>>)
MissionOf(j) ==
  [id |-> j[1], title |-> j[2], durationMinutes |-> j[3], reward |-> j[4],
   status |-> j[5], completedAt |-> IF Len(j) > 5 THEN j[6] ELSE Never]
JsonSticker(d) ==
  <<d.date, d.count, d.stickerType>>
    \o (IF "isBonusUsed" \in DOMAIN d THEN <<d.isBonusUsed>> ELSE <<>>)
StickerOf(j) ==
  IF Len(j) > 3
    THEN [date |-> j[1], count |-> j[2], isBonusUsed |-> j[4], stickerType |-> j[3]]
    ELSE [date |-> j[1], count |-> j[2], stickerType |-> j[3]]
JsonStickers(board) == [i \in 1..Len(board) |-> JsonSticker(board[i])]
StickersOf(j) == [i \in 1..Len(j) |-> StickerOf(j[i])]
JsonArchive(a) == <<a.monthId, JsonStickers(a.stickers), a.totalStickers, a.archivedAt>>
ArchiveEntryOf(j) ==
  [monthId |-> j[1], stickers |-> StickersOf(j[2]), totalStickers |-> j[3],
   archivedAt |-> j[4]]
JsonTemplate(t) == <<t.title, t.durationMinutes, t.reward>>
TemplateOfJson(j) == [title |-> j[1], durationMinutes |-> j[2], reward |-> j[3]]
JsonPreset(p) == <<p.id, p.name, [i \in 1..Len(p.missions) |-> JsonTemplate(p.missions[i])]>>
PresetOf(j) ==
  [id |-> j[1], name |-> j[2],
   missions |-> [i \in 1..Len(j[3]) |-> TemplateOfJson(j[3][i])]]
JsonStep(st) == <<st.stickers, st.text>>
StepOf(j) == [stickers |-> j[1], text |-> j[2]]
JsonRewardConfig(c) == <<c.type, [i \in 1..Len(c.steps) |-> JsonStep(c.steps[i])]>>
RewardConfigOf(j) == [type |-> j[1], steps |-> [i \in 1..Len(j[2]) |-> StepOf(j[2][i])]]
JsonLog(l) == <<l.date, l.title>>
LogOf(j) == [date |-> j[1], title |-> j[2]]

\* parseInt of the decimal text of a balance.
parseInt(text) == CHOOSE n \in (0 - MaxBonus - 1)..(MaxBonus + 1) : ToString(n) = text

\* What the persist effects, lines 471-478, leave in the store after an
\* event: each key holds the text of the state it follows.
StoredMissions == [i \in 1..Len(missions) |-> JsonMission(missions[i])]
StoredStickers == JsonStickers(stickers)
\* Mutation: the balance is written once, at launch.
StoredBonus_Stale == "0"
StoredBonus == ToString(bonusStickers)
StoredArchives == [i \in 1..Len(archives) |-> JsonArchive(archives[i])]
StoredPresets == [i \in 1..Len(presets) |-> JsonPreset(presets[i])]
StoredRewardConfig == JsonRewardConfig(rewardConfig)
StoredLogs == [i \in 1..Len(missionLogs) |-> JsonLog(missionLogs[i])]

\* The values the load effect reads from the store, lines 433-466.
LoadedMissions == LET j == StoredMissions IN [i \in 1..Len(j) |-> MissionOf(j[i])]
\* Mutation: the load takes the month id from the calendar.
ReadStore_CalendarMonth ==
  /\ stickers' = StickersOf(StoredStickers)
  /\ bonusStickers' = parseInt(StoredBonus)
  /\ archives' = LET j == StoredArchives IN [i \in 1..Len(j) |-> ArchiveEntryOf(j[i])]
  /\ currentMonthId' = getCurrentMonthId
  /\ presets' = LET j == StoredPresets IN [i \in 1..Len(j) |-> PresetOf(j[i])]
  /\ rewardConfig' = RewardConfigOf(StoredRewardConfig)
  /\ missionLogs' = LET j == StoredLogs IN [i \in 1..Len(j) |-> LogOf(j[i])]

ReadStore ==
  /\ stickers' = StickersOf(StoredStickers)
  /\ bonusStickers' = parseInt(StoredBonus)
  /\ archives' = LET j == StoredArchives IN [i \in 1..Len(j) |-> ArchiveEntryOf(j[i])]
  /\ currentMonthId' = storedMonthId
  /\ presets' = LET j == StoredPresets IN [i \in 1..Len(j) |-> PresetOf(j[i])]
  /\ rewardConfig' = RewardConfigOf(StoredRewardConfig)
  /\ missionLogs' = LET j == StoredLogs IN [i \in 1..Len(j) |-> LogOf(j[i])]

\* Mutation: every load resets the statuses.
Load_AlwaysResets ==
  /\ missions' = ResetStatuses(LoadedMissions)
  /\ ReadStore
  /\ lastReset' = getTodayStr
  /\ mode' = "child"
  /\ pinInput' = <<>>
  /\ pinChangeStep' = "none"
  /\ tempNewPin' = <<>>
  /\ clearTimers' = 0
  /\ activeMissionId' = NoId
  /\ watch' = watch
  /\ lastOp' = Op("Load", "")
  /\ UNCHANGED <<savedPin, storedMonthId, clockVars, online>>
  /\ speechCalls' = 0
  /\ summaryCalls' = 0
  /\ aiMessage' = Greeting
  /\ Remount

Load ==
  /\ missions' = IF lastReset # getTodayStr THEN ResetStatuses(LoadedMissions) ELSE LoadedMissions
  /\ ReadStore
  /\ lastReset' = getTodayStr
  /\ mode' = "child"
  /\ pinInput' = <<>>
  /\ pinChangeStep' = "none"
  /\ tempNewPin' = <<>>
  /\ clearTimers' = 0
  /\ activeMissionId' = NoId
  /\ watch' = watch
  /\ lastOp' = Op("Load", "")
  /\ UNCHANGED <<savedPin, storedMonthId, clockVars, online>>
  /\ speechCalls' = 0
  /\ summaryCalls' = 0
  /\ aiMessage' = Greeting
  /\ Remount

(***************************************************************************)
(* The mission lifecycle: the parent edits the list behind the PIN pad,    *)
(* the child starts, cancels and completes missions, the session is        *)
(* reloaded and days pass.  No bonus sticker is in store.                  *)
(***************************************************************************)
Init ==
  /\ bonusStickers = 0
  /\ tz = 1
  /\ watch = {"StartMission", "Load"}
  /\ online = FALSE
  /\ Fresh

Next ==
  \/ clock < MaxClock /\ Tick
  \/ Load
  \/ Len(missions) < MaxMissions
       /\ \E t \in Titles, d \in Durations, r \in Rewards : HandleAddMission(t, d, r)
  \/ \E id \in MissionIds : HandleDeleteMission(id)
  \/ \E c \in BOOLEAN : DeleteAllMissions(c)
  \/ \E id \in MissionIds : HandleStartMission(id)
  \/ HandleCancelMission
  \/ Len(missionLogs) < MaxLogs /\ TimerComplete
  \/ OpenAuth
  \/ ExitParent
  \/ OpenTimeWarp
  \/ PinBack
  \/ Len(missionLogs) < MaxLogs /\ TypePinDigit

Spec == Init /\ [][Next]_vars

(***************************************************************************)
(* The sticker board: one mission drives the award eligibility, stickers   *)
(* are awarded and bonus stickers placed, and the parent rolls the month   *)
(* over.                                                                   *)
(***************************************************************************)
InitBoard ==
  /\ bonusStickers \in 0..MaxBonus
  /\ watch = {"SelectSticker", "UseBonus", "StartNewMonth"}
  /\ online = FALSE
  /\ Fresh

NextBoard ==
  \/ clock < BoardClock /\ Tick
  \/ Load
  \/ Len(missions) < BoardMissions /\ HandleAddMission("Read", 1, "Candy")
  \/ \E id \in MissionIds : HandleStartMission(id)
  \/ Len(missionLogs) < BoardLogs /\ TimerComplete
  \/ HandleSelectSticker("heart")
  \/ \E c \in BOOLEAN : HandleUseBonusSticker(c)
  \/ Len(archives) < MaxArchives /\ \E c \in BOOLEAN : HandleStartNewMonth(c)
  \/ OpenAuth
  \/ ExitParent
  \/ TypePinDigit

SpecBoard == InitBoard /\ [][NextBoard]_vars

(***************************************************************************)
(* The reward tiers: the parent edits the step list behind the PIN pad and *)
(* the board evaluates it.                                                 *)
(***************************************************************************)
InitReward ==
  /\ bonusStickers = 0
  /\ tz = 1
  /\ watch = {}
  /\ online = FALSE
  /\ Fresh

NextReward ==
  \/ OpenAuth
  \/ TypePinDigit
  \/ ExitParent
  \/ \E t \in {"currency", "text"} : SetRewardType(t)
  \/ Len(rewardConfig.steps) < RewardSteps /\ AddRewardStep
  \/ \E idx \in 1..Len(rewardConfig.steps) : RemoveRewardStep(idx)
  \/ \E idx \in 1..Len(rewardConfig.steps), n \in Thresholds : EditStepStickers(idx, n)
  \/ \E idx \in 1..Len(rewardConfig.steps), t \in StepTexts : EditStepText(idx, t)

SpecReward == InitReward /\ [][NextReward]_vars

(***************************************************************************)
(* The archive list: the board of SpecBoard on a device at UTC with a full *)
(* bonus balance, rolled over more than once.                              *)
(***************************************************************************)
InitArchive ==
  /\ bonusStickers = MaxBonus
  /\ tz = 1
  /\ watch = {"UseBonus", "StartNewMonth"}
  /\ online = FALSE
  /\ Fresh

NextArchive ==
  \/ clock < BoardClock /\ Tick
  \/ Load
  \/ Len(missions) < BoardMissions /\ HandleAddMission("Read", 1, "Candy")
  \/ \E id \in MissionIds : HandleStartMission(id)
  \/ Len(missionLogs) < BoardLogs /\ TimerComplete
  \/ HandleSelectSticker("star")
  \/ \E c \in BOOLEAN : HandleUseBonusSticker(c)
  \/ Len(archives) < ArchiveRolls /\ \E c \in BOOLEAN : HandleStartNewMonth(c)
  \/ OpenAuth
  \/ ExitParent
  \/ TypePinDigit

SpecArchive == InitArchive /\ [][NextArchive]_vars

(***************************************************************************)
(* The PIN pad: the child or the parent presses any digit, the reset and   *)
(* the back button on the unlock pad and on the time-warp pad of a running *)
(* mission, and the scheduled buffer clears fire at any later moment.      *)
(***************************************************************************)
InitPin ==
  /\ bonusStickers = 0
  /\ tz = 1
  /\ watch = {"PinInput", "PinBack", "PinReset", "ClearTimerFires"}
  /\ online = FALSE
  /\ mode = "child"
  /\ pinChangeStep = "none"
  /\ savedPin \in StoredPins
  /\ FreshStore

NextPin ==
  \/ OpenAuth
  \/ OpenTimeWarp
  \/ PinBack
  \/ PinReset
  \/ \E d \in PinDigits :
       /\ Len(pinInput) < MaxPinBuffer
       /\ (Len(pinInput) = PinLength - 1 /\ Append(pinInput, d) # currentSavedPin)
            => clearTimers < PinTimers
       /\ HandlePinInput(d)
  \/ ClearTimerFires
  \/ ExitParent
  \/ Len(missions) < BoardMissions /\ HandleAddMission("Read", 1, "Candy")
  \/ \E id \in MissionIds : HandleStartMission(id)
  \/ Load

SpecPin == InitPin /\ [][NextPin]_vars

(***************************************************************************)
(* The PIN change flow of handlePinInput, lines 637-644.  No call in src/  *)
(* sets pinChangeStep to 'current', so no event of the program enters the  *)
(* flow; its branches are exercised from the state they are written for,   *)
(* the unlock pad with the step 'current', and the user types PINs of      *)
(* ChangePins digit by digit.                                              *)
(***************************************************************************)
IsChangePrefix(buffer) ==
  \E pin \in ChangePins :
    Len(buffer) <= Len(pin) /\ SubSeq(pin, 1, Len(buffer)) = buffer

InitPinChange ==
  /\ bonusStickers = 0
  /\ tz = 1
  /\ watch = {"PinInput", "PinBack"}
  /\ online = FALSE
  /\ mode = "auth"
  /\ pinChangeStep = "current"
  /\ savedPin = NoPin
  /\ FreshStore

NextPinChange ==
  \/ \E d \in 1..9 :
       /\ IsChangePrefix(Append(pinInput, d))
       /\ (Len(pinInput) = PinLength - 1 /\ Append(pinInput, d) # currentSavedPin)
            => clearTimers < PinTimers
       /\ HandlePinInput(d)
  \/ ClearTimerFires
  \/ PinBack
  \/ PinReset
  \/ OpenAuth
  \/ ExitParent

SpecPinChange == InitPinChange /\ [][NextPinChange]_vars

(***************************************************************************)
(* One day of use: the parent adds missions, the child starts, cancels and *)
(* completes them (by the timer or by an authorized time warp), a bonus    *)
(* sticker may be placed on today's square, the award is taken, and the    *)
(* session may be loaded again.                                            *)
(***************************************************************************)
InitDay ==
  /\ bonusStickers = 1
  /\ tz = 1
  /\ watch = {"TimerComplete", "PinInput", "SelectSticker"}
  /\ online = FALSE
  /\ Fresh

NextDay ==
  \/ OpenAuth
  \/ TypePinDigit
  \/ ExitParent
  \/ Len(missions) < MaxMissions
       /\ \E t \in Titles : HandleAddMission(t, 1, "Candy")
  \/ \E id \in MissionIds : HandleStartMission(id)
  \/ HandleCancelMission
  \/ TimerComplete
  \/ OpenTimeWarp
  \/ \E t \in AwardTypes : HandleSelectSticker(t)
  \/ HandleUseBonusSticker(TRUE)
  \/ Load

SpecDay == InitDay /\ [][NextDay]_vars

(***************************************************************************)
(* Properties.                                                             *)
(***************************************************************************)
(* The mission log: one mission is added, started, cancelled, completed by *)
(* the timer or by an authorized time warp, deleted, saved to and loaded   *)
(* from a preset; days pass, the session is loaded again and the parent    *)
(* rolls the month over.                                                   *)
(***************************************************************************)
InitLog ==
  /\ bonusStickers = 0
  /\ tz = 1
  /\ watch = {"TimerComplete", "PinInput", "StartNewMonth", "LoadPreset"}
  /\ online = FALSE
  /\ Fresh

NextLog ==
  \/ clock < LogClock /\ Tick
  \/ Load
  \/ OpenAuth
  \/ TypePinDigit
  \/ ExitParent
  \/ Len(missions) < LogMissions
       /\ \E t \in Titles : HandleAddMission(t, 1, "Candy")
  \/ \E id \in MissionIds : HandleDeleteMission(id)
  \/ DeleteAllMissions(TRUE)
  \/ \E id \in MissionIds : HandleStartMission(id)
  \/ HandleCancelMission
  \/ Len(missionLogs) < LogEntries /\ TimerComplete
  \/ Len(missionLogs) < LogEntries /\ OpenTimeWarp
  \/ PinBack
  \/ Len(presets) < MaxPresets /\ HandleSavePreset("set")
  \/ \E k \in 1..Len(presets) : HandleLoadPreset(k, TRUE)
  \/ Len(archives) < MaxArchives /\ \E c \in BOOLEAN : HandleStartNewMonth(c)

SpecLog == InitLog /\ [][NextLog]_vars

(***************************************************************************)
(* Presets: the parent builds a list of up to two missions, saves it as a  *)
(* preset, edits the list and loads a preset back, while the child starts, *)
(* cancels and completes missions and the session is loaded again.         *)
(***************************************************************************)
InitPreset ==
  /\ bonusStickers = 0
  /\ tz = 1
  /\ watch = {"LoadPreset", "SavePreset"}
  /\ online = FALSE
  /\ Fresh

NextPreset ==
  \/ OpenAuth
  \/ TypePinDigit
  \/ ExitParent
  \/ Len(missions) < PresetMissions
       /\ \E t \in Titles : HandleAddMission(t, 1, "Candy")
  \/ \E id \in MissionIds : HandleDeleteMission(id)
  \/ \E id \in MissionIds : HandleStartMission(id)
  \/ Len(missionLogs) < PresetLogs /\ TimerComplete
  \/ Len(presets) < PresetCount /\ \E n \in PresetNames \cup {""} : HandleSavePreset(n)
  \/ \E k \in 1..Len(presets), c \in BOOLEAN : HandleLoadPreset(k, c)
  \/ Load

SpecPreset == InitPreset /\ [][NextPreset]_vars

(***************************************************************************)
(* The store: every persisted collection is filled (a mission completed,   *)
(* a sticker awarded, a bonus sticker placed, the month rolled over, a     *)
(* preset saved, a reward step added and edited) while days pass and the   *)
(* session is loaded again.                                                *)
(***************************************************************************)
InitStore ==
  /\ bonusStickers = 1
  /\ tz = 1
  /\ watch = {"Load"}
  /\ online = FALSE
  /\ Fresh

NextStore ==
  \/ clock < StoreClock /\ Tick
  \/ Load
  \/ OpenAuth
  \/ TypePinDigit
  \/ ExitParent
  \/ Len(missions) < StoreMissions /\ HandleAddMission("Read", 1, "Candy")
  \/ \E id \in MissionIds : HandleStartMission(id)
  \/ Len(missionLogs) < StoreLogs /\ TimerComplete
  \/ HandleSelectSticker("heart")
  \/ HandleUseBonusSticker(TRUE)
  \/ Len(archives) < StoreArchives /\ HandleStartNewMonth(TRUE)
  \/ Len(presets) < StorePresets /\ HandleSavePreset("set")
  \/ Len(rewardConfig.steps) < StoreSteps /\ AddRewardStep
  \/ \E idx \in 1..Len(rewardConfig.steps) : EditStepStickers(idx, 5)
  \/ \E idx \in 1..Len(rewardConfig.steps) : EditStepText(idx, "A")

SpecStore == InitStore /\ [][NextStore]_vars

(***************************************************************************)
(* The add form: the parent submits missions of any duration the number    *)
(* field accepts, the child starts, cancels and completes them, and the    *)
(* session is loaded again.                                                *)
(***************************************************************************)
InitAdd ==
  /\ bonusStickers = 0
  /\ tz = 1
  /\ watch = {"AddMission", "StartMission"}
  /\ online = FALSE
  /\ Fresh

NextAdd ==
  \/ OpenAuth
  \/ TypePinDigit
  \/ ExitParent
  \/ Len(missions) < FormMissions
       /\ \E t \in Titles, d \in FormDurations : HandleAddMission(t, d, "Candy")
  \/ Len(missionLogs) < FormLogs /\ \E id \in MissionIds : HandleStartMission(id)
  \/ HandleCancelMission
  \/ Len(missionLogs) < FormLogs /\ TimerComplete
  \/ Load

SpecAdd == InitAdd /\ [][NextAdd]_vars

(***************************************************************************)
(* The countdown: the child starts, pauses, resumes and cancels missions   *)
(* of one minute, the seconds pass, the parent opens the pads and types    *)
(* the PIN, and the session is loaded again.                               *)
(***************************************************************************)
InitTimer ==
  /\ bonusStickers = 0
  /\ tz = 1
  /\ watch = {"TimerTick", "PinInput", "CancelMission", "StartMission"}
  /\ online = FALSE
  /\ Fresh

NextTimer ==
  \/ OpenAuth
  \/ TypePinDigit
  \/ PinBack
  \/ ExitParent
  \/ Len(missions) < TimerMissions
       /\ \E t \in Titles : HandleAddMission(t, 1, "Candy")
  \/ \E id \in MissionIds : HandleStartMission(id)
  \/ HandleCancelMission
  \/ TogglePause
  \/ TimerTick
  \/ OpenTimeWarp
  \/ Load

SpecTimer == InitTimer /\ [][NextTimer]_vars

\* The interval of a running timer fires every second (setInterval, line
\* 192): a second that stays due is eventually counted.
SpecTimerLive == SpecTimer /\ WF_vars(TimerTick)

(***************************************************************************)
(* The step list: the parent adds steps as often as the button allows,     *)
(* removes and edits them, and the session is loaded again.                *)
(***************************************************************************)
InitSteps ==
  /\ bonusStickers = 0
  /\ tz = 1
  /\ watch = {"AddRewardStep"}
  /\ online = FALSE
  /\ Fresh

NextSteps ==
  \/ OpenAuth
  \/ TypePinDigit
  \/ ExitParent
  \/ Load
  \/ AddRewardStep
  \/ \E idx \in 1..Len(rewardConfig.steps) : RemoveRewardStep(idx)
  \/ \E idx \in 1..Len(rewardConfig.steps), n \in CapThresholds : EditStepStickers(idx, n)
  \/ \E idx \in 1..Len(rewardConfig.steps) : EditStepText(idx, "A")

SpecSteps == InitSteps /\ [][NextSteps]_vars

(***************************************************************************)
(* The external calls: the device reaches the API, the child earns         *)
(* stickers over two days, the parent asks for summaries, and the calls    *)
(* return, fail or stay unanswered while the other events go on.           *)
(***************************************************************************)
InitVoice ==
  /\ bonusStickers = 1
  /\ tz = 1
  /\ watch = {"SelectSticker", "SpeechSettles", "SummarySettles", "AddMission",
              "UseBonus"}
  /\ online = TRUE
  /\ Fresh

NextVoice ==
  \/ clock < VoiceClock /\ Tick
  \/ Load
  \/ OpenAuth
  \/ TypePinDigit
  \/ ExitParent
  \/ Len(missions) < VoiceMissions /\ HandleAddMission("Read", 1, "Candy")
  \/ Len(missionLogs) < VoiceLogs /\ \E id \in MissionIds : HandleStartMission(id)
  \/ Len(missionLogs) < VoiceLogs /\ TimerComplete
  \/ speechCalls < MaxCalls /\ \E t \in AwardTypes : HandleSelectSticker(t)
  \/ HandleUseBonusSticker(TRUE)
  \/ \E ok \in BOOLEAN : SpeechSettles(ok)
  \/ summaryCalls < MaxCalls /\ \E named \in BOOLEAN : GenerateAiMessage(named)
  \/ \E ok \in BOOLEAN, text \in Summaries : SummarySettles(ok, text)

SpecVoice == InitVoice /\ [][NextVoice]_vars

(***************************************************************************)
StatusCount(st) == Cardinality({i \in 1..Len(missions) : missions[i].status = st})
IsBonus(s) == "isBonusUsed" \in DOMAIN s
IsAward(s) == ~IsBonus(s)
EntriesOn(board, date) == {i \in 1..Len(board) : board[i].date = date}
\* Days of the board's month that carry no entry, counted from the entries.
Unfilled(board, m) == {d \in 1..DaysPerMonth : EntriesOn(board, MonthDate(m, d)) = {}}

\* C1: in every reachable state at most one mission has status 'active'.
C1_AtMostOneActive == StatusCount("active") <= 1

\* C2: in every reachable state the active sticker collection holds at most
\* one StickerDay entry per date.
C2_OneEntryPerDate ==
  \A i, j \in 1..Len(stickers) : stickers[i].date = stickers[j].date => i = j

\* C2 witness: the board spans into a later month, a bonus entry sits on
\* today's date, and an award was attempted after it.
C2_Witness ==
  /\ lastOp.op = "SelectSticker"
  /\ \E i \in 1..Len(stickers) : IsBonus(stickers[i]) /\ stickers[i].date = getTodayStr
  /\ \E j \in 1..Len(stickers) : stickers[j].date.month < getTodayStr.month

\* C3: an award on a day that already has its entry leaves the collection
\* unchanged, and after any award the day has at most one entry.
C3_SecondAwardNoOp ==
  [][lastOp'.op = "SelectSticker" =>
       /\ Cardinality(EntriesOn(stickers', getTodayStr)) <= 1
       /\ EntriesOn(stickers, getTodayStr) # {} => stickers' = stickers]_vars

\* C3 witness: the day's entry is a star award and the last event was an
\* award of a heart.
C3_Witness ==
  /\ lastOp = [op |-> "SelectSticker", arg |-> "heart"]
  /\ \E i \in 1..Len(stickers) :
       /\ stickers[i] = AwardEntry(getTodayStr, "star")
       /\ i = Len(stickers)

\* The eligibility predicate as the specification words it, on statuses.
Eligible ==
  /\ Len(missions) >= 1
  /\ StatusCount("pending") = 0
  /\ StatusCount("active") = 0
  /\ \A i \in 1..Len(stickers) : ~(stickers[i].date = getTodayStr /\ stickers[i].count > 0)

\* C4: the award is permitted iff a mission exists, none is pending, none is
\* active and today has no sticker.
C4_EligibilityIff == canSelectSticker <=> Eligible

\* C5: an award while ineligible changes nothing; an eligible one appends
\* exactly {date: today, count: 1, stickerType: type}.
C5_AwardGuarded ==
  [][lastOp'.op = "SelectSticker" =>
       IF Eligible THEN stickers' = Append(stickers, AwardEntry(getTodayStr, lastOp'.arg))
                   ELSE stickers' = stickers]_vars

\* C6: a confirmed useBonus with a positive balance and an unfilled day of
\* the current month appends one bonus entry on the earliest unfilled day and
\* takes one off the balance.
C6_BonusFillsEarliest ==
  [][(/\ lastOp' = [op |-> "UseBonus", arg |-> "yes"]
      /\ bonusStickers > 0
      /\ Unfilled(stickers, currentMonthId) # {}) =>
       \E d \in Unfilled(stickers, currentMonthId) :
         /\ \A e \in 1..(d - 1) : e \notin Unfilled(stickers, currentMonthId)
         /\ stickers' = Append(stickers,
              [date |-> MonthDate(currentMonthId, d), count |-> 1,
               isBonusUsed |-> TRUE, stickerType |-> "star"])
         /\ bonusStickers' = bonusStickers - 1]_vars

\* C6 witness: the bonus went past a day an award had filled.
C6_Witness ==
  /\ lastOp = [op |-> "UseBonus", arg |-> "yes"]
  /\ Len(stickers) >= 2
  /\ IsBonus(stickers[Len(stickers)])
  /\ stickers[Len(stickers)].date.day > 1
  /\ \E i \in 1..Len(stickers) :
       IsAward(stickers[i]) /\ stickers[i].date = MonthDate(currentMonthId, 1)

\* C7: useBonus on a month whose every day has an entry creates no entry and
\* leaves the balance.
C7_BonusFullMonthNoOp ==
  [][(lastOp'.op = "UseBonus" /\ Unfilled(stickers, currentMonthId) = {}) =>
       stickers' = stickers /\ bonusStickers' = bonusStickers]_vars

\* C7 witness: the month is full, a balance is left, and a confirmed useBonus
\* came after the award that is the board's last entry.
C7_Witness ==
  /\ lastOp = [op |-> "UseBonus", arg |-> "yes"]
  /\ bonusStickers > 0
  /\ Unfilled(stickers, currentMonthId) = {}
  /\ stickers # <<>> /\ IsAward(stickers[Len(stickers)])

\* C8: the balance is never negative, and useBonus at balance 0 changes
\* neither the balance nor the collection.
C8_BalanceNonNegative ==
  /\ [](bonusStickers \in Nat)
  /\ [][(lastOp'.op = "UseBonus" /\ bonusStickers = 0) =>
          bonusStickers' = 0 /\ stickers' = stickers]_vars

\* C8 witness: the balance was spent, a day of the month is still unfilled,
\* and a confirmed useBonus came after the board's last entry, an award.
C8_Witness ==
  /\ lastOp = [op |-> "UseBonus", arg |-> "yes"]
  /\ bonusStickers = 0
  /\ Unfilled(stickers, currentMonthId) # {}
  /\ \E i \in 1..Len(stickers) : IsBonus(stickers[i])
  /\ stickers # <<>> /\ IsAward(stickers[Len(stickers)])

\* C9: every step leaves the collection as it is, or is an award or a bonus
\* that appends one entry on a date that had none, or is a rollover that
\* empties it after copying it into the newest archive entry.
C9_AppendOnly ==
  [][\/ stickers' = stickers
     \/ /\ lastOp'.op \in {"SelectSticker", "UseBonus"}
        /\ Len(stickers') = Len(stickers) + 1
        /\ SubSeq(stickers', 1, Len(stickers)) = stickers
        /\ EntriesOn(stickers, stickers'[Len(stickers')].date) = {}
     \/ /\ lastOp' = [op |-> "StartNewMonth", arg |-> "yes"]
        /\ stickers' = <<>>
        /\ Len(archives') = Len(archives) + 1
        /\ archives'[1].stickers = stickers]_vars

\* C9 witness: a board holding an award and a bonus was rolled over.
C9_Witness ==
  /\ lastOp = [op |-> "StartNewMonth", arg |-> "yes"]
  /\ stickers = <<>>
  /\ archives # <<>>
  /\ \E i, j \in 1..Len(archives[1].stickers) :
       IsAward(archives[1].stickers[i]) /\ IsBonus(archives[1].stickers[j])

\* A board holding n stickers.
BoardOf(n) == [i \in 1..n |-> AwardEntry(MonthDate(1, i), "star")]
\* The steps the total reaches, and among them those of the greatest threshold.
Reached(steps, total) == {i \in 1..Len(steps) : steps[i].stickers <= total}
Greatest(steps, total) ==
  {i \in Reached(steps, total) :
     \A j \in Reached(steps, total) : steps[j].stickers <= steps[i].stickers}
ExampleSteps ==
  <<[stickers |-> 0, text |-> "A"], [stickers |-> 5, text |-> "B"],
    [stickers |-> 10, text |-> "C"]>>

\* C10 as stated: for a non-empty step list and a total that reaches a step,
\* currentReward returns the text of the step with the greatest threshold
\* the total reaches.
C10_ReturnsStepText ==
  \A total \in Totals :
    Reached(rewardConfig.steps, total) # {} =>
      \E i \in Greatest(rewardConfig.steps, total) :
        getCurrentReward(BoardOf(total), rewardConfig) = rewardConfig.steps[i].text

\* C10 amended: currentReward returns the text of the step with the greatest
\* threshold the total reaches, shown as a won amount when the configuration
\* is of type currency and the text is numeric.
C10_ReturnsStepTextRendered ==
  \A total \in Totals :
    Reached(rewardConfig.steps, total) # {} =>
      \E i \in Greatest(rewardConfig.steps, total) :
        LET text == rewardConfig.steps[i].text
        IN getCurrentReward(BoardOf(total), rewardConfig) =
             IF rewardConfig.type = "currency" /\ text \in {"", "1000"}
               THEN (IF text = "" THEN "W0" ELSE "W1,000")
               ELSE text

\* C10 witness: the steps {0,A},{5,B},{10,C} with totals 0, 4, 5, 12 giving
\* A, A, B, C.
C10_Witness ==
  /\ rewardConfig.steps = ExampleSteps
  /\ getCurrentReward(BoardOf(0), rewardConfig) = "A"
  /\ getCurrentReward(BoardOf(4), rewardConfig) = "A"
  /\ getCurrentReward(BoardOf(5), rewardConfig) = "B"
  /\ getCurrentReward(BoardOf(12), rewardConfig) = "C"

\* The steps of the lowest threshold.
Lowest(steps) ==
  {i \in 1..Len(steps) : \A j \in 1..Len(steps) : steps[i].stickers <= steps[j].stickers}
\* Texts that are shown as typed under either reward type.
PlainTexts == {"A", "B", "C"}

\* C11: for a non-empty step list of plain texts and a total below every
\* threshold, currentReward returns the text of a step of the lowest
\* threshold, whatever the stored order.
C11_FallbackLowest ==
  \A total \in Totals :
    (/\ rewardConfig.steps # <<>>
     /\ Reached(rewardConfig.steps, total) = {}
     /\ \A i \in 1..Len(rewardConfig.steps) : rewardConfig.steps[i].text \in PlainTexts) =>
      \E i \in Lowest(rewardConfig.steps) :
        getCurrentReward(BoardOf(total), rewardConfig) = rewardConfig.steps[i].text

\* C12: a confirmed rollover prepends exactly one archive entry holding the
\* month id and the collection from before the call and the sum of its
\* counts as totalStickers (7 entries of count 1 give 7); afterwards the
\* collection and the mission log are empty and the month id is the month
\* of the current (local) date.
C12_RolloverArchives ==
  /\ [](ArchiveOf(currentMonthId, BoardOf(7), clock).totalStickers = 7)
  /\ [][lastOp' = [op |-> "StartNewMonth", arg |-> "yes"] =>
          /\ Len(archives') = Len(archives) + 1
          /\ Tail(archives') = archives
          /\ archives'[1].monthId = currentMonthId
          /\ archives'[1].stickers = stickers
          /\ \A i \in 1..Len(stickers) : stickers[i].count = 1
          /\ archives'[1].totalStickers = Len(stickers)
          /\ stickers' = <<>>
          /\ missionLogs' = <<>>
          /\ currentMonthId' = DateOf(LocalDay(clock, tz)).month]_vars

\* C12 witness: a board of two stickers was rolled over into a later month.
C12_Witness ==
  /\ lastOp = [op |-> "StartNewMonth", arg |-> "yes"]
  /\ archives # <<>>
  /\ archives[1].totalStickers = 2
  /\ archives[1].monthId < currentMonthId
  /\ stickers = <<>> /\ missionLogs = <<>>

\* C13: the archive list changes only by a confirmed rollover prepending one
\* entry, every older entry keeping its place and its fields, and the
\* entries stay ordered newest first.
C13_ArchivesImmutable ==
  /\ [](\A i \in 1..(Len(archives) - 1) :
          archives[i].archivedAt >= archives[i + 1].archivedAt)
  /\ [][\/ archives' = archives
        \/ /\ lastOp' = [op |-> "StartNewMonth", arg |-> "yes"]
           /\ Len(archives') = Len(archives) + 1
           /\ \A i \in 1..Len(archives) :
                /\ archives'[i + 1].monthId = archives[i].monthId
                /\ archives'[i + 1].stickers = archives[i].stickers
                /\ archives'[i + 1].totalStickers = archives[i].totalStickers]_vars

\* C13 witness: two rollovers were made, the older snapshot holds a sticker,
\* and a bonus sticker was placed on the new board afterwards.
C13_Witness ==
  /\ lastOp = [op |-> "UseBonus", arg |-> "yes"]
  /\ Len(archives) = 2
  /\ archives[2].stickers # <<>>
  /\ archives[1].archivedAt > archives[2].archivedAt
  /\ stickers # <<>>

\* C14: a session load on a day other than the stored reset date makes every
\* mission pending and stores today as the reset date; a load on the stored
\* reset date leaves every status as it is.
C14_DailyReset ==
  [][lastOp'.op = "Load" =>
       /\ Len(missions') = Len(missions)
       /\ lastReset' = getTodayStr
       /\ IF lastReset # getTodayStr
            THEN \A i \in 1..Len(missions) :
                   missions'[i] = [missions[i] EXCEPT !.status = "pending"]
            ELSE missions' = missions]_vars

\* C14 witness: after a day crossing and its reset a mission was completed,
\* and a second load of that day kept it completed.
C14_Witness ==
  /\ lastOp.op = "Load"
  /\ lastReset = getTodayStr
  /\ lastReset # DateOf(0)
  /\ StatusCount("completed") >= 1

\* The digit a recorded press carried.
DigitOf(arg) == CHOOSE d \in 0..9 : ToString(d) = arg
\* The PIN an entry is judged against: the stored one, 1234 when none is stored.
StoredOrDefault == IF savedPin = <<>> THEN <<1, 2, 3, 4>> ELSE savedPin
\* The buffer a recorded press produced.
Typed == Append(pinInput, DigitOf(lastOp'.arg))

\* C17: on the unlock pad, a press that makes the buffer equal to the stored
\* PIN (1234 when none is stored) leads to parent mode with an empty buffer.
C17_UnlockOnMatch ==
  [][(/\ lastOp'.op = "PinInput"
      /\ mode = "auth" /\ pinChangeStep = "none"
      /\ Typed = StoredOrDefault) =>
       mode' = "parent" /\ pinInput' = <<>>]_vars

\* C17 witness: the pad was unlocked with a stored PIN.
C17_Witness ==
  /\ lastOp.op = "PinInput"
  /\ mode = "parent"
  /\ savedPin # <<>>
  /\ pinInput = <<>>

\* C18: a fourth digit that completes a wrong PIN on the unlock or time-warp
\* pad leaves the mode, keeps the buffer and schedules its clear; a clear
\* that runs empties the buffer; and whatever failed before, a press that
\* makes the buffer equal to the stored PIN leaves the pad unlocked.
C18_MismatchRetry ==
  /\ [][(/\ lastOp'.op = "PinInput"
         /\ mode = "timeWarpAuth" \/ (mode = "auth" /\ pinChangeStep = "none")
         /\ Len(pinInput) = 3
         /\ Typed # StoredOrDefault) =>
          /\ mode' = mode
          /\ pinInput' = Typed
          /\ clearTimers' = clearTimers + 1]_vars
  /\ [][clearTimers' < clearTimers => pinInput' = <<>>]_vars
  /\ [][(/\ lastOp'.op = "PinInput"
         /\ mode = "timeWarpAuth" \/ (mode = "auth" /\ pinChangeStep = "none")
         /\ Typed = StoredOrDefault) =>
          mode' = (IF mode = "auth" THEN "parent" ELSE "child")]_vars

\* C18 witness: the pad was unlocked while the clears of two failed
\* attempts were still waiting.
C18_Witness ==
  /\ lastOp.op = "PinInput"
  /\ mode = "parent"
  /\ clearTimers = 2

\* C19: the back button of the pad returns to the child view with the
\* buffer empty and no stashed candidate.
C19_BackDiscards ==
  [][lastOp'.op = "PinBack" =>
       mode' = "child" /\ pinChangeStep' = "none" /\ pinInput' = <<>> /\ tempNewPin' = <<>>]_vars

C20_CompleteEndToEnd ==
  [][\A i \in 1..Len(missions) :
       (/\ i <= Len(missions')
        /\ missions'[i].id = missions[i].id
        /\ missions[i].status # "completed"
        /\ missions'[i].status = "completed") =>
         /\ missions[i].status = "active"
         /\ missionLogs' = Append(missionLogs,
              [date |-> getTodayStr, title |-> missions[i].title])
         /\ (/\ \A j \in 1..Len(missions') : missions'[j].status = "completed"
             /\ \A k \in 1..Len(stickers') : stickers'[k].date # getTodayStr) =>
              canSelectSticker']_vars

\* C20 witness: the timer completed the second of two missions, both are
\* logged, and the award is open.
C20_Witness ==
  /\ lastOp.op = "TimerComplete"
  /\ Len(missions) = 2
  /\ \A i \in 1..Len(missions) : missions[i].status = "completed"
  /\ Len(missionLogs) = 2
  /\ missionLogs[2] = [date |-> getTodayStr, title |-> "Math"]
  /\ canSelectSticker

\* The mission a start step was aimed at: handleStartMission always leaves
\* the pointer on its target.
StartTarget == CHOOSE m \in Range(missions) : m.id = activeMissionId'

\* C21: a start changes the missions and the pointer only when its target is
\* 'pending' and no mission is active; a start on any other state leaves all
\* statuses and the active pointer as they were.
C21_StartGuarded ==
  [][lastOp'.op = "StartMission" =>
       \/ /\ StartTarget.status = "pending"
          /\ StatusCount("active") = 0
          /\ ~activeMissionExists
       \/ UNCHANGED <<missions, activeMissionId>>]_vars

\* The mission the active pointer refers to.
ActiveMission == CHOOSE m \in Range(missions) : m.id = activeMissionId

\* The step calls handleCompleteMission on the active pointer: the timer ran
\* out, or the press completed the stored PIN on the time-warp pad.
CompletionStep ==
  \/ lastOp'.op = "TimerComplete"
  \/ /\ lastOp'.op = "PinInput"
     /\ mode = "timeWarpAuth"
     /\ Typed = StoredOrDefault
     /\ activeMissionId # NoId

\* C22: a completion of an active mission sets its status to 'completed',
\* stamps completedAt with the time of the step, appends the one log entry
\* {today, title} and clears the active pointer; the log grows only in such
\* a step, never for a mission that is completed already or is not in the
\* list.
C22_CompleteLogsOnce ==
  /\ [][(CompletionStep /\ activeMissionExists /\ ActiveMission.status = "active") =>
          /\ missions' = [i \in 1..Len(missions) |->
                IF missions[i].id = activeMissionId
                  THEN [missions[i] EXCEPT !.status = "completed", !.completedAt = clock]
                  ELSE missions[i]]
          /\ missionLogs' = Append(missionLogs,
                [date |-> getTodayStr, title |-> ActiveMission.title])
          /\ activeMissionId' = NoId]_vars
  /\ [][Len(missionLogs') > Len(missionLogs) =>
          /\ CompletionStep
          /\ activeMissionExists
          /\ ActiveMission.status = "active"]_vars

\* C22 witness: a mission completed on the first day was reset by a load on
\* a later day and completed again by a time warp; the log holds both
\* completions and the mission carries the later stamp.
C22_Witness ==
  /\ lastOp.op = "PinInput"
  /\ mode = "child"
  /\ Len(missionLogs) = 2
  /\ missionLogs[1].date # missionLogs[2].date
  /\ missionLogs[2].date = getTodayStr
  /\ \E i \in 1..Len(missions) :
       missions[i].status = "completed" /\ missions[i].completedAt = clock
  /\ activeMissionId = NoId

\* C23: a step that takes the active mission out of the list (a delete, the
\* delete-all button, a preset load) clears the active pointer.
C23_DeleteClearsPointer ==
  [][(activeMissionExists /\ activeMissionId \notin MissionIds') =>
       activeMissionId' = NoId]_vars

\* The press is on the time-warp pad.
WarpPress == lastOp'.op = "PinInput" /\ mode = "timeWarpAuth"

\* C24: with no timer running out, a mission becomes completed only by a
\* press on the time-warp pad that makes the 4-digit buffer equal to the
\* stored PIN; such a press completes the active mission with one log entry
\* and returns to the child view; a press that does not, and the back button
\* of the pad, leave the mission active and the log and the pointer as they
\* were.
C24_TimeWarpByPin ==
  /\ [][(\E i \in 1..Len(missions) :
           /\ i <= Len(missions')
           /\ missions[i].status # "completed"
           /\ missions'[i].status = "completed") =>
          /\ WarpPress
          /\ Len(Typed) = PinLength
          /\ Typed = StoredOrDefault]_vars
  /\ [][(WarpPress /\ Typed = StoredOrDefault) =>
          /\ activeMissionExists
          /\ missions' = Stamp(SetStatus(missions, activeMissionId, "completed"),
                               activeMissionId, clock)
          /\ missionLogs' = Append(missionLogs,
                [date |-> getTodayStr, title |-> ActiveMission.title])
          /\ mode' = "child"]_vars
  /\ [][((WarpPress /\ Typed # StoredOrDefault)
           \/ (lastOp'.op = "PinBack" /\ mode = "timeWarpAuth")) =>
          /\ activeMissionExists
          /\ ActiveMission.status = "active"
          /\ UNCHANGED <<missions, missionLogs, activeMissionId>>]_vars

\* C24 witness: after a wrong 4-digit entry on the time-warp pad, whose
\* clear is still waiting, the stored PIN completed the mission.
C24_Witness ==
  /\ lastOp.op = "PinInput"
  /\ mode = "child"
  /\ savedPin # NoPin
  /\ clearTimers > 0
  /\ Len(missionLogs) = 1
  /\ \A i \in 1..Len(missions) : missions[i].status = "completed"
  /\ activeMissionId = NoId

\* C25: a confirmed preset load leaves in the list exactly one mission per
\* template of the chosen preset, in template order, with the template's
\* title, duration and reward, status 'pending' and no completion stamp,
\* under ids that were not in the list before; no mission of the old list is
\* left and no mission is active.
C25_LoadReplaces ==
  [][(lastOp'.op = "LoadPreset" /\ lastOp'.arg = "yes") =>
       \E k \in 1..Len(presets) :
         LET tpl == presets[k].missions
         IN /\ Len(missions') = Len(tpl)
            /\ \A i \in 1..Len(tpl) :
                 /\ TemplateOf(missions'[i]) = tpl[i]
                 /\ missions'[i].status = "pending"
                 /\ missions'[i].completedAt = Never
                 /\ missions'[i].id \notin MissionIds
                 /\ missions'[i] \notin Range(missions)
            /\ \A i, j \in 1..Len(tpl) : missions'[i].id = missions'[j].id => i = j
            /\ \A i \in 1..Len(tpl) : missions'[i].status # "active"
            /\ ~activeMissionExists']_vars

\* C25 witness: while a mission of a one-mission list was running, the
\* second of two presets, holding Math then Read, was loaded over it.
C25_Witness ==
  /\ lastOp = [op |-> "LoadPreset", arg |-> "yes"]
  /\ Len(presets) = 2
  /\ Len(presets[1].missions) = 1
  /\ Len(missions) = 2
  /\ missions[1].title = "Math"
  /\ missions[2].title = "Read"
  /\ activeMissionId # NoId
  /\ Len(missionLogs) = 1

C27_RolloverManualOnly ==
  [][(\/ currentMonthId' # currentMonthId
      \/ archives' # archives
      \/ Len(stickers') < Len(stickers)
      \/ Len(missionLogs') < Len(missionLogs)
      \/ \E i \in 1..Len(stickers) : i <= Len(stickers') /\ stickers'[i] # stickers[i]
      \/ \E i \in 1..Len(missionLogs) :
           i <= Len(missionLogs') /\ missionLogs'[i] # missionLogs[i]) =>
       /\ lastOp' = [op |-> "StartNewMonth", arg |-> "yes"]
       /\ mode = "parent"]_vars

\* C27 witness: the session was loaded in a month after the board's, and
\* the board still carries the old month id, its stickers and its log, with
\* nothing archived.
C27_Witness ==
  /\ lastReset = getTodayStr
  /\ lastReset.month # currentMonthId
  /\ getCurrentMonthId # currentMonthId
  /\ stickers # <<>>
  /\ missionLogs # <<>>
  /\ archives = <<>>

\* C28: the mission log changes in two kinds of step only: a completion,
\* which appends exactly one entry and keeps the entries before it, and the
\* confirmed rollover, which empties it; every other step (a delete, a
\* preset load, a load with or without the daily reset, a cancel) leaves it
\* as it is.
C28_LogAppendOnly ==
  /\ [][missionLogs' # missionLogs =>
          \/ /\ CompletionStep
             /\ Len(missionLogs') = Len(missionLogs) + 1
             /\ SubSeq(missionLogs', 1, Len(missionLogs)) = missionLogs
          \/ /\ lastOp' = [op |-> "StartNewMonth", arg |-> "yes"]
             /\ missionLogs' = <<>>]_vars
  /\ [][(CompletionStep /\ activeMissionExists) =>
          Len(missionLogs') = Len(missionLogs) + 1]_vars
  /\ [][lastOp' = [op |-> "StartNewMonth", arg |-> "yes"] => missionLogs' = <<>>]_vars

\* C28 witness: a preset was loaded over the list after a completion on the
\* first day, a daily reset and a completion on a later day; the log still
\* holds both entries.
C28_Witness ==
  /\ lastOp = [op |-> "LoadPreset", arg |-> "yes"]
  /\ Len(missionLogs) = 2
  /\ missionLogs[1].date # missionLogs[2].date
  /\ \A i \in 1..Len(missions) : missions[i].completedAt = Never
  /\ archives = <<>>

\* C29: an add either appends one pending mission whose duration is a
\* positive number of minutes or leaves the list as it is, and a start never
\* leaves its target completed.
C29_AddValidates ==
  /\ [][lastOp'.op = "AddMission" =>
          \/ missions' = missions
          \/ /\ Len(missions') = Len(missions) + 1
             /\ SubSeq(missions', 1, Len(missions)) = missions
             /\ missions'[Len(missions')].status = "pending"
             /\ missions'[Len(missions')].durationMinutes > 0]_vars
  /\ [][lastOp'.op = "StartMission" =>
          \A i \in 1..Len(missions) :
            (missions[i].status # "completed" /\ i <= Len(missions')) =>
              missions'[i].status # "completed"]_vars

\* C30: the passing of time changes no mission, and a mission leaves the
\* status 'completed' only in a load that finds the reset date of another
\* day; so when the day changes in an open session, with every mission
\* completed and none running, nothing is pending on the new day and the
\* award is eligible there unless that day already has a sticker.
C30_ResetAtLoadOnly ==
  /\ [][clock' # clock => missions' = missions]_vars
  /\ [][(\E i \in 1..Len(missions) :
           /\ i <= Len(missions')
           /\ missions'[i].id = missions[i].id
           /\ missions[i].status = "completed"
           /\ missions'[i].status # "completed") =>
          /\ lastReset # getTodayStr
          /\ lastReset' = getTodayStr
          /\ activeMissionId' = NoId
          /\ mode' = "child"]_vars
  /\ [][(/\ clock' # clock
         /\ DateOf(UtcDay(clock')) # getTodayStr
         /\ missions # <<>>
         /\ \A i \in 1..Len(missions) : missions[i].status = "completed"
         /\ ~activeMissionExists) =>
          /\ Len(pendingMissions') = 0
          /\ canSelectSticker' <=> ~hasStickerToday']_vars

\* C30 witness: the mission was completed and its sticker awarded on the
\* day of the last load; on the next day, with no load since, the mission
\* is still completed and the award is eligible again.
C30_Witness ==
  /\ lastReset # getTodayStr
  /\ missions # <<>>
  /\ \A i \in 1..Len(missions) : missions[i].status = "completed"
  /\ \E i \in 1..Len(stickers) : IsAward(stickers[i]) /\ stickers[i].date = lastReset
  /\ canSelectSticker

\* C31: the second that brings the countdown to zero does what one
\* handleCompleteMission of the active mission does (status 'completed',
\* one log entry, pointer cleared) and takes the timer away, so it cannot
\* happen again for that start; the other seconds change no mission; the
\* countdown moves only on a running (not paused) timer; and a timer exists
\* only while the pointer names a mission of status 'active' in the child
\* view, so none is left after a cancel or a time-warp completion.
C31_ZeroCompletesOnce ==
  /\ [](timerShown => ActiveMission.status = "active" /\ timeLeft > 0)
  /\ [](~timerShown => timeLeft = 0 /\ ~isActive)
  /\ [][lastOp'.op = "TimerTick" =>
          /\ timerShown /\ isActive
          /\ IF timeLeft = 1
               THEN /\ missions' = Stamp(SetStatus(missions, activeMissionId, "completed"),
                                         activeMissionId, clock)
                    /\ missionLogs' = Append(missionLogs,
                                             [date |-> getTodayStr, title |-> ActiveMission.title])
                    /\ activeMissionId' = NoId
                    /\ ~timerShown'
               ELSE /\ UNCHANGED <<missions, missionLogs, activeMissionId>>
                    /\ timeLeft' = timeLeft - 1]_vars
  /\ [][(timerShown /\ ~isActive) =>
          /\ timerShown' => timeLeft' = timeLeft
          /\ mode' = "child" => missionLogs' = missionLogs]_vars
  /\ [][(lastOp'.op = "CancelMission" \/ (lastOp'.op = "PinInput" /\ mode = "timeWarpAuth"
                                           /\ mode' = "child")) =>
          /\ activeMissionId' = NoId
          /\ timeLeft' = 0]_vars

\* C31 witness: the countdown has just reached zero: the mission is
\* completed, logged once and no longer active.
C31_Witness ==
  /\ lastOp.op = "TimerTick"
  /\ activeMissionId = NoId
  /\ Len(missionLogs) = 1
  /\ \E i \in 1..Len(missions) :
       missions[i].status = "completed" /\ missions[i].title = missionLogs[1].title

\* Everything the handlers keep but the external calls and the message.
DomainState ==
  <<mode, pinVars, missionVars, stickerVars, presets, rewardConfig>>

\* C32: an award appends its entry in the step that issues the speech call;
\* the return or the failure of a speech call changes neither the domain
\* state nor the message; a summary call changes no domain state however it
\* ends, and a failed one leaves the message too; and with a speech call
\* unanswered the child view still opens the pad and the bonus sticker can
\* still be used.
C32_CallsDoNotCorrupt ==
  /\ [][(lastOp'.op = "SelectSticker" /\ stickers' # stickers) =>
          /\ stickers' = Append(stickers, AwardEntry(getTodayStr, lastOp'.arg))
          /\ speechCalls' = speechCalls + 1]_vars
  /\ [][lastOp'.op = "SpeechSettles" => UNCHANGED <<DomainState, aiMessage>>]_vars
  /\ [][lastOp'.op = "SummarySettles" => UNCHANGED DomainState]_vars
  /\ [][(lastOp'.op = "SummarySettles" /\ lastOp'.arg = "error") =>
          aiMessage' = aiMessage]_vars
  /\ []((speechCalls > 0 /\ mode = "child") => ENABLED OpenAuth)
  /\ []((speechCalls > 0 /\ mode = "child" /\ bonusStickers > 0
           /\ EmptyDays(stickers, currentMonthId) # {}) =>
          ENABLED (HandleUseBonusSticker(TRUE) /\ stickers' # stickers))

\* C32 witness: a summary call has just failed under a message an earlier
\* summary had set, while the speech call of an award is still unanswered
\* and the award's entry is on the board.
C32_Witness ==
  /\ lastOp = [op |-> "SummarySettles", arg |-> "error"]
  /\ aiMessage = "Well done"
  /\ speechCalls > 0
  /\ \E i \in 1..Len(stickers) : IsAward(stickers[i])

\* C33: the step list never has more than five steps, and the add-step
\* button pressed on a list of five leaves the reward configuration as it
\* is.
C33_StepCap ==
  /\ [](Len(rewardConfig.steps) <= MaxRewardSteps)
  /\ [][(lastOp'.op = "AddRewardStep" /\ Len(rewardConfig.steps) >= MaxRewardSteps) =>
          rewardConfig' = rewardConfig]_vars
  /\ [][(lastOp'.op = "AddRewardStep" /\ Len(rewardConfig.steps) < MaxRewardSteps) =>
          Len(rewardConfig'.steps) = Len(rewardConfig.steps) + 1]_vars

\* C33 witness: the button was pressed on a list of five steps: the list
\* an add has just left is full and out of threshold order, which an add
\* that appended would have sorted.
C33_Witness ==
  /\ lastOp.op = "AddRewardStep"
  /\ Len(rewardConfig.steps) = MaxRewardSteps
  /\ rewardConfig.steps[1].stickers > rewardConfig.steps[2].stickers

\* C34: the mode becomes 'parent' only by a digit pressed on the unlock pad
\* (mode 'auth', no PIN change under way) that makes the buffer equal to the
\* stored PIN, 1234 when none is stored; the parent view is always shown
\* over an empty buffer and leaving it leaves the buffer empty, so the next
\* entry needs the whole PIN in the buffer again.
C34_ParentOnlyByPin ==
  /\ [][(mode # "parent" /\ mode' = "parent") =>
          /\ lastOp'.op = "PinInput"
          /\ mode = "auth" /\ pinChangeStep = "none"
          /\ Typed = StoredOrDefault
          /\ pinInput' = <<>>]_vars
  /\ [](mode = "parent" => pinInput = <<>>)
  /\ [][(mode = "parent" /\ mode' # "parent") => pinInput' = <<>>]_vars

\* C34 witness: the parent view was unlocked a second time: the mission the
\* parent added on the first visit was started by the child in between.
C34_Witness ==
  /\ mode = "parent"
  /\ lastOp.op = "PinInput"
  /\ \E i \in 1..Len(missions) : missions[i].status = "active"

\* C35: a mission has the status 'active' exactly when the active pointer
\* refers to it.
C35_PointerMatchesStatus ==
  \A i \in 1..Len(missions) :
    missions[i].status = "active" <=> missions[i].id = activeMissionId

\* C36: with a bonus entry on today's date an award changes nothing on the
\* board, whatever the missions' statuses; and a date that carries a bonus
\* entry carries no other entry.
C36_BonusBlocksAward ==
  /\ [][(/\ lastOp'.op = "SelectSticker"
         /\ \E i \in 1..Len(stickers) :
              IsBonus(stickers[i]) /\ stickers[i].date = getTodayStr) =>
          stickers' = stickers]_vars
  /\ [](\A i \in 1..Len(stickers) :
          IsBonus(stickers[i]) => Cardinality(EntriesOn(stickers, stickers[i].date)) = 1)

\* C36 witness: an award was asked for and refused with every mission
\* completed, none running, and a bonus entry as the only entry on today's
\* date, a day after the award of the previous day.
C36_Witness ==
  /\ lastOp.op = "SelectSticker"
  /\ missions # <<>>
  /\ \A i \in 1..Len(missions) : missions[i].status = "completed"
  /\ ~activeMissionExists
  /\ \E i \in 1..Len(stickers) : IsBonus(stickers[i]) /\ stickers[i].date = getTodayStr
  /\ \E i \in 1..Len(stickers) : IsAward(stickers[i]) /\ stickers[i].date # getTodayStr

\* C37: a scheduled clear stays scheduled through digit presses, resets and
\* the back button; when it fires it empties the buffer, whatever was typed
\* or reset since it was scheduled, and changes nothing else; and with a
\* clear still scheduled a press that makes the buffer equal to the stored
\* PIN unlocks the pad (or, on the time-warp pad, returns to the child view).
C37_LateClear ==
  /\ [][lastOp'.op \in {"PinInput", "PinReset", "PinBack"} =>
          clearTimers' >= clearTimers]_vars
  /\ [][lastOp'.op = "ClearTimerFires" =>
          /\ clearTimers > 0
          /\ pinInput' = <<>>
          /\ UNCHANGED <<mode, pinChangeStep, tempNewPin, savedPin, missionVars,
                         stickerVars, presets, rewardConfig>>]_vars
  /\ [][(/\ lastOp'.op = "PinInput"
         /\ clearTimers > 0
         /\ pinChangeStep = "none"
         /\ Typed = StoredOrDefault) =>
          /\ mode' = IF mode = "auth" THEN "parent" ELSE "child"
          /\ clearTimers' = clearTimers]_vars

\* C37 witness: a clear scheduled by a mismatch has fired in the parent
\* view, after the pad was unlocked with the stored PIN.
C37_Witness ==
  /\ lastOp.op = "ClearTimerFires"
  /\ mode = "parent"
  /\ savedPin # <<>>

\* The mission is the one whose countdown is shown and running.
Started(id) == timerShown /\ isActive /\ activeMissionId = id
Completed(id) == \E i \in 1..Len(missions) :
                   missions[i].id = id /\ missions[i].status = "completed"

\* C38: every second counted takes one off the countdown, and a mission
\* whose countdown is running is eventually completed, unless the timer is
\* paused, the mission is cancelled or the view leaves the child mode.
C38_StartedCompletes ==
  /\ [][lastOp'.op = "TimerTick" => timeLeft' < timeLeft]_vars
  /\ \A id \in 1..TimerMissions :
       Started(id) ~> \/ Completed(id)
                      \/ timerShown /\ ~isActive
                      \/ lastOp.op = "CancelMission"
                      \/ mode # "child"

=============================================================================
